---- MODULE Spec2Model ----
(***************************************************************************)
(* TaskBound: the task queue, its countdown reducer (extended variant,     *)
(* src/src/renderer/store/state.ts:481-786) and the rehydration / catch-up *)
(* engine (shared/stateHelpers, src/pwa/src/components/EditModal.tsx:      *)
(* 205-378).                                                               *)
(*                                                                         *)
(* state.ts holds two revisions of the reducer: the base one (35-252) and   *)
(* the extended one (481-786, with reorder, pause/resume, the strike award *)
(* and the revival of finished tasks).  A run of the model is a run of one *)
(* of them, chosen by `variant`.                                           *)
(*                                                                         *)
(* Abstractions: timestamps are reduced to what the code reads from them:  *)
(* the UTC date key (a day number) for the statistics, presence for        *)
(* completedAt, and a logical instant for meta.lastSavedAt.  title,        *)
(* createdAt, updatedAt, meta.appVersion and preferences are not modelled. *)
(* An absent optional number is None; an absent status or history is a     *)
(* field missing from the record.                                          *)
(*                                                                         *)
(* Besides the reducer (Spec) the module holds the renderer store around   *)
(* it (SpecStore: hydration, the debounced save, the save's outcome), the   *)
(* conversion of timer timestamps to ticks (SpecTick), the replacement of  *)
(* the persisted document on disk (SpecDisk) and the pure helpers applied  *)
(* to drawn inputs (SpecCalc).                                             *)
(***************************************************************************)
EXTENDS Integers, Sequences, FiniteSets, TLC

\* ---------------------------------------------------------------- bounds
MaxTasks == 3      \* tasks ever created (ids 1..MaxTasks, never reused)
MaxSec == 2        \* largest time budget / added time, in seconds
MaxSteps == 4      \* operations applied since the first launch
MaxElapsed == 4    \* largest wall-clock gap at rehydration, in whole seconds
MaxDay == 2        \* date keys 1..MaxDay

None == -1

IDs == 1..MaxTasks
Days == 1..MaxDay
NoDate == None
\* seconds an addTask may carry: absent, or a parsed number (0 from "[00:00]")
AddTaskSeconds == {None} \cup (0..MaxSec)
\* seconds an updateTask may carry: absent, or positive (EditModal rejects <= 0)
UpdateTaskSeconds == {None} \cup (1..MaxSec)
\* seconds an addTime carries: positive (AddTimeModal)
AddTimeSeconds == 1..MaxSec
\* now - lastSavedAt at rehydration, in milliseconds (negative: clock set back)
MsPerSecond == 1000
DeltasMs ==
    {s * MsPerSecond : s \in (-1)..MaxElapsed} \cup {-1, MsPerSecond - 1}

Variants == {"base", "extended"}

VARIABLES
    variant,  \* which revision of the reducer runs
    tasks,    \* AppState.tasks, in queue order
    score,    \* AppState.score
    stats,    \* AppState.stats
    meta,     \* AppState.meta (lastSavedAt)
    nextId,   \* the next fresh task id (uuid() never repeats)
    steps,    \* operations applied so far
    last,     \* the operation that produced this state, with its arguments
    store,    \* useTaskStore: hydrated flag, refs, debounce timer, saves in flight
    ticker,   \* dispatchTick's refs: lastTickTimestampRef, tickCarryoverRef
    disk,     \* the main process's files: state.json, its temp file, its backup
    calc,     \* a pure helper applied to an input: the input and the results
    ui        \* App's component state: selection, delete dialog, Add Time modal

vars == <<variant, tasks, score, stats, meta, nextId, steps, last,
          store, ticker, disk, calc, ui>>

\* ---------------------------------------------------------------- helpers
Max(a, b) == IF a >= b THEN a ELSE b
Min(a, b) == IF a <= b THEN a ELSE b

IsTerminal(task) == task.status = "completed" \/ task.status = "struck"

\* task.remainingSeconds ?? task.timeAssignedSeconds ?? 0
RemainingOf(task) ==
    IF task.remainingSeconds # None THEN task.remainingSeconds
    ELSE IF task.timeAssignedSeconds # None THEN task.timeAssignedSeconds
    ELSE 0

\* x ?? 0
Seconds(x) == IF x = None THEN 0 ELSE x

MapTasks(ts, F(_)) == [i \in 1..Len(ts) |-> F(ts[i])]

\* tasks.findIndex(not completed and not struck); 0 stands for -1
findNextActiveIndex(ts) ==
    IF \E i \in 1..Len(ts) : ~IsTerminal(ts[i])
    THEN CHOOSE i \in 1..Len(ts) :
            /\ ~IsTerminal(ts[i])
            /\ \A j \in 1..(i - 1) : IsTerminal(ts[j])
    ELSE 0

findActiveTaskIndex(ts) == findNextActiveIndex(ts)

\* { ...task, history: [...(task.history ?? [])] }
cloneTask(task) ==
    IF "history" \in DOMAIN task THEN task ELSE task @@ [history |-> <<>>]

\* mutant: every normalization leaves an entry in the history
ensureTaskDefaults_logged(task) ==
    LET next == cloneTask(task)
        withStatus == IF "status" \in DOMAIN next THEN next
                      ELSE next @@ [status |-> "pending"]
        logged == [withStatus EXCEPT !.history =
                      Append(@, [type |-> "edit", amountSeconds |-> 0])]
    IN IF logged.timeAssignedSeconds # None /\ logged.remainingSeconds = None
       THEN [logged EXCEPT !.remainingSeconds = logged.timeAssignedSeconds]
       ELSE logged

ensureTaskDefaults(task) ==
    LET next == cloneTask(task)
        withStatus == IF "status" \in DOMAIN next THEN next
                      ELSE next @@ [status |-> "pending"]
    IN IF withStatus.timeAssignedSeconds # None /\ withStatus.remainingSeconds = None
       THEN [withStatus EXCEPT !.remainingSeconds = withStatus.timeAssignedSeconds]
       ELSE withStatus

\* mutant: tasks behind the active one keep their status
realignTaskStatuses_keepLater(ts) ==
    LET first == findNextActiveIndex(ts) IN
    [i \in 1..Len(ts) |->
        IF IsTerminal(ts[i]) THEN ts[i]
        ELSE IF i # first THEN ts[i]
        ELSE [ts[i] EXCEPT !.status =
                 IF RemainingOf(ts[i]) > 0 THEN "in_progress" ELSE "pending"]]

\* mutant: `remaining >= 0` decides in_progress
realignTaskStatuses_zeroActive(ts) ==
    LET first == findNextActiveIndex(ts) IN
    [i \in 1..Len(ts) |->
        IF IsTerminal(ts[i]) THEN ts[i]
        ELSE IF i # first THEN [ts[i] EXCEPT !.status = "pending"]
        ELSE [ts[i] EXCEPT !.status =
                 IF RemainingOf(ts[i]) >= 0 THEN "in_progress" ELSE "pending"]]

realignTaskStatuses(ts) ==
    LET first == findNextActiveIndex(ts) IN
    [i \in 1..Len(ts) |->
        IF IsTerminal(ts[i]) THEN ts[i]
        ELSE IF i # first THEN [ts[i] EXCEPT !.status = "pending"]
        ELSE [ts[i] EXCEPT !.status =
                 IF RemainingOf(ts[i]) > 0 THEN "in_progress" ELSE "pending"]]

ensureAlignedTasks(ts) == realignTaskStatuses(MapTasks(ts, ensureTaskDefaults))

createEmptyState(now) ==
    [score |-> 0, tasks |-> <<>>,
     stats |-> [totalCompleted |-> 0, todayCompleted |-> 0,
                lastCompletionDate |-> NoDate],
     meta |-> [lastSavedAt |-> now]]

\* ------------------------------------------------------- catch-up engine
\* the statistics update of one strike inside autoAdvance
autoAdvanceStats(st, todayKey) ==
    [totalCompleted |-> st.totalCompleted + 1,
     todayCompleted |-> IF st.lastCompletionDate = todayKey
                        THEN st.todayCompleted + 1 ELSE 1,
     lastCompletionDate |-> todayKey]

\* mutant: the entry records the assigned budget, as the tick action does
autoAdvanceStrike_assigned(task, remaining) ==
    [task EXCEPT !.remainingSeconds = 0,
                 !.status = "struck",
                 !.completedAt = TRUE,
                 !.history = Append(task.history,
                     [type |-> "auto_complete",
                      amountSeconds |-> Seconds(task.timeAssignedSeconds)])]

\* mutant: a covered task loses one second per iteration instead of retiring
autoAdvanceStrike_perSecond(task, remaining) ==
    IF remaining > 1
    THEN [task EXCEPT !.remainingSeconds = remaining - 1,
                      !.status = "in_progress"]
    ELSE [task EXCEPT !.remainingSeconds = 0,
                      !.status = "struck",
                      !.completedAt = TRUE,
                      !.history = Append(task.history,
                          [type |-> "auto_complete", amountSeconds |-> remaining])]

\* the task written back when the elapsed budget covers its remaining time
autoAdvanceStrike(task, remaining) ==
    [task EXCEPT !.remainingSeconds = 0,
                 !.status = "struck",
                 !.completedAt = TRUE,
                 !.history = Append(task.history,
                     [type |-> "auto_complete", amountSeconds |-> remaining])]

\* the task written back when the elapsed budget ends inside it
autoAdvancePartial(task, remaining, secondsRemaining) ==
    [task EXCEPT !.remainingSeconds = remaining - secondsRemaining,
                 !.status = "in_progress"]

\* mutant: a strike consumes nothing of the elapsed budget
autoAdvanceConsume_nothing(secondsRemaining, remaining) == secondsRemaining

\* seconds the budget loses when a task of `remaining` seconds is struck
autoAdvanceConsume(secondsRemaining, remaining) == secondsRemaining - remaining

\* mutant: `remaining < 0`
autoAdvanceNoTimer_strict(remaining) == remaining < 0

\* `if (remaining <= 0)`: the active task has no timer, the loop stops
autoAdvanceNoTimer(remaining) == remaining <= 0

RECURSIVE autoAdvanceLoop(_, _, _, _, _)
autoAdvanceLoop(ts, st, secondsRemaining, todayKey, iterations) ==
    IF secondsRemaining <= 0
    THEN [tasks |-> ts, stats |-> st, iterations |-> iterations]
    ELSE
      LET activeIndex == findNextActiveIndex(ts) IN
      IF activeIndex = 0
      THEN [tasks |-> ts, stats |-> st, iterations |-> iterations + 1]
      ELSE
        LET task == ts[activeIndex]
            remaining == RemainingOf(task)
        IN
        IF autoAdvanceNoTimer(remaining)
        THEN [tasks |-> ts, stats |-> st, iterations |-> iterations + 1]
        ELSE IF secondsRemaining >= remaining
        THEN autoAdvanceLoop(
                 [ts EXCEPT ![activeIndex] = autoAdvanceStrike(task, remaining)],
                 autoAdvanceStats(st, todayKey),
                 autoAdvanceConsume(secondsRemaining, remaining),
                 todayKey, iterations + 1)
        ELSE [tasks |-> [ts EXCEPT ![activeIndex] =
                            autoAdvancePartial(task, remaining, secondsRemaining)],
              stats |-> st, iterations |-> iterations + 1]

autoAdvance(state, elapsedSeconds, todayKey) ==
    LET r == autoAdvanceLoop(MapTasks(state.tasks, ensureTaskDefaults),
                             state.stats, elapsedSeconds, todayKey, 0)
    IN [tasks |-> realignTaskStatuses(r.tasks), stats |-> r.stats,
        iterations |-> r.iterations]

\* mutant: the magnitude of the gap, whatever its sign
elapsedSecondsOf_abs(deltaMs) ==
    IF deltaMs < 0 THEN (0 - deltaMs) \div MsPerSecond ELSE deltaMs \div MsPerSecond

\* Math.max(0, Math.floor((now - lastSaved) / 1000)); \div floors
elapsedSecondsOf(deltaMs) == Max(0, deltaMs \div MsPerSecond)

\* mutant: every catch-up strike awards a point, as the tick action does
rehydrateState_scoring(rawState, deltaMs, todayKey, now) ==
    LET baseState == [score |-> rawState.score,
                      tasks |-> MapTasks(rawState.tasks, ensureTaskDefaults),
                      stats |-> rawState.stats,
                      meta |-> rawState.meta]
        elapsedSeconds == Max(0, deltaMs \div MsPerSecond)
        auto == autoAdvance(baseState, elapsedSeconds, todayKey)
        nextState == IF elapsedSeconds > 0
                     THEN [baseState EXCEPT
                              !.tasks = auto.tasks,
                              !.stats = auto.stats,
                              !.score = baseState.score
                                  + (auto.stats.totalCompleted
                                        - baseState.stats.totalCompleted)]
                     ELSE baseState
    IN [score |-> nextState.score,
        tasks |-> realignTaskStatuses(nextState.tasks),
        stats |-> nextState.stats,
        meta |-> [lastSavedAt |-> now],
        iterations |-> IF elapsedSeconds > 0 THEN auto.iterations ELSE 0]

rehydrateState(rawState, deltaMs, todayKey, now) ==
    LET baseState == [score |-> rawState.score,
                      tasks |-> MapTasks(rawState.tasks, ensureTaskDefaults),
                      stats |-> rawState.stats,
                      meta |-> rawState.meta]
        elapsedSeconds == elapsedSecondsOf(deltaMs)
        auto == autoAdvance(baseState, elapsedSeconds, todayKey)
        nextState == IF elapsedSeconds > 0
                     THEN [baseState EXCEPT !.tasks = auto.tasks,
                                            !.stats = auto.stats]
                     ELSE baseState
    IN [score |-> nextState.score,
        tasks |-> realignTaskStatuses(nextState.tasks),
        stats |-> nextState.stats,
        meta |-> [lastSavedAt |-> now],
        iterations |-> IF elapsedSeconds > 0 THEN auto.iterations ELSE 0]

\* --------------------------------------- the reducer, extended revision
\* mutant: the counter of the day is never reset
updateStatsOnCompletion_noReset(state, dateKey) ==
    [totalCompleted |-> state.stats.totalCompleted + 1,
     todayCompleted |-> state.stats.todayCompleted + 1,
     lastCompletionDate |-> dateKey]

updateStatsOnCompletion(state, dateKey) ==
    [totalCompleted |-> state.stats.totalCompleted + 1,
     todayCompleted |-> IF state.stats.lastCompletionDate = dateKey
                        THEN state.stats.todayCompleted + 1 ELSE 1,
     lastCompletionDate |-> dateKey]

\* case 'hydrate'
reducer_hydrate(state, payload) ==
    [score |-> payload.score, tasks |-> ensureAlignedTasks(payload.tasks),
     stats |-> payload.stats, meta |-> payload.meta]

\* mutant: a timer that reaches 0 keeps running (`remainingSeconds >= 0`)
tickTask_lateStrike(task) ==
    IF task.remainingSeconds = None THEN task
    ELSE IF task.remainingSeconds <= 0 THEN task
    ELSE IF task.isPaused THEN task
    ELSE [task EXCEPT !.remainingSeconds = task.remainingSeconds - 1,
                      !.status = "in_progress"]

\* mutant: the paused flag is not consulted, as in the base revision
tickTask_ignorePause(task) ==
    IF task.remainingSeconds = None THEN task
    ELSE IF task.remainingSeconds <= 0 THEN task
    ELSE IF task.remainingSeconds - 1 > 0
    THEN [task EXCEPT !.remainingSeconds = task.remainingSeconds - 1,
                      !.status = "in_progress"]
    ELSE [task EXCEPT !.remainingSeconds = 0,
                      !.status = "struck",
                      !.completedAt = TRUE,
                      !.history = Append(task.history,
                          [type |-> "auto_complete",
                           amountSeconds |-> IF task.timeAssignedSeconds # None
                                             THEN task.timeAssignedSeconds ELSE 0])]

\* mutant: the last second is never taken, the task is never struck
tickTask_lastSecondKept(task) ==
    IF task.remainingSeconds = None THEN task
    ELSE IF task.remainingSeconds <= 0 THEN task
    ELSE IF task.isPaused THEN task
    ELSE IF task.remainingSeconds - 1 > 0
    THEN [task EXCEPT !.remainingSeconds = task.remainingSeconds - 1,
                      !.status = "in_progress"]
    ELSE task

\* the map callback of case 'tick', applied to the active task
tickTask(task) ==
    IF task.remainingSeconds = None THEN task
    ELSE IF task.remainingSeconds <= 0 THEN task
    ELSE IF task.isPaused THEN task
    ELSE IF task.remainingSeconds - 1 > 0
    THEN [task EXCEPT !.remainingSeconds = task.remainingSeconds - 1,
                      !.status = "in_progress"]
    ELSE [task EXCEPT !.remainingSeconds = 0,
                      !.status = "struck",
                      !.completedAt = TRUE,
                      !.history = Append(task.history,
                          [type |-> "auto_complete",
                           amountSeconds |-> IF task.timeAssignedSeconds # None
                                             THEN task.timeAssignedSeconds ELSE 0])]

\* score awarded when a tick strikes the active task
tickStrikeAward == 1

\* mutant: a strike by tick is not counted in the stats
reducer_tick_noStats(state, dateKey) ==
    LET activeIndex == findActiveTaskIndex(state.tasks) IN
    IF activeIndex = 0 THEN state
    ELSE
      LET ticked == [i \in 1..Len(state.tasks) |->
                        IF i # activeIndex THEN state.tasks[i]
                        ELSE tickTask(state.tasks[i])]
          activeTask == state.tasks[activeIndex]
          becameStruck ==
              /\ activeTask.remainingSeconds # None
              /\ activeTask.remainingSeconds > 0
              /\ IsTerminal(ticked[activeIndex])
      IN [score |-> IF becameStruck THEN state.score + tickStrikeAward
                    ELSE state.score,
          tasks |-> ensureAlignedTasks(ticked),
          stats |-> state.stats,
          meta |-> state.meta]

\* case 'tick'
reducer_tick(state, dateKey) ==
    LET activeIndex == findActiveTaskIndex(state.tasks) IN
    IF activeIndex = 0 THEN state
    ELSE
      LET ticked == [i \in 1..Len(state.tasks) |->
                        IF i # activeIndex THEN state.tasks[i]
                        ELSE tickTask(state.tasks[i])]
          activeTask == state.tasks[activeIndex]
          becameStruck ==
              /\ activeTask.remainingSeconds # None
              /\ activeTask.remainingSeconds > 0
              /\ IsTerminal(ticked[activeIndex])
      IN [score |-> IF becameStruck THEN state.score + tickStrikeAward
                    ELSE state.score,
          tasks |-> ensureAlignedTasks(ticked),
          stats |-> IF becameStruck THEN updateStatsOnCompletion(state, dateKey)
                    ELSE state.stats,
          meta |-> state.meta]

\* case 'addTask'
reducer_addTask(state, id, seconds, now) ==
    LET newTask == [id |-> id,
                    timeAssignedSeconds |-> seconds,
                    remainingSeconds |-> seconds,
                    status |-> "pending",
                    completedAt |-> FALSE,
                    isPaused |-> FALSE,
                    history |-> <<>>]
    IN [state EXCEPT !.tasks = ensureAlignedTasks(Append(state.tasks, newTask)),
                     !.meta = [state.meta EXCEPT !.lastSavedAt = now]]

\* score awarded by a manual completion
manualCompleteAward == 2

\* mutant: the entry records the assigned budget, not the time left
reducer_manualComplete_assigned(state, dateKey, now) ==
    LET activeIndex == findActiveTaskIndex(state.tasks) IN
    IF activeIndex = 0 THEN state
    ELSE
      LET task == state.tasks[activeIndex]
          done == [task EXCEPT !.status = "completed",
                               !.remainingSeconds = 0,
                               !.completedAt = TRUE,
                               !.history = Append(task.history,
                                   [type |-> "manual_complete",
                                    amountSeconds |->
                                        Seconds(task.timeAssignedSeconds)])]
      IN [score |-> state.score + manualCompleteAward,
          stats |-> updateStatsOnCompletion(state, dateKey),
          tasks |-> ensureAlignedTasks([state.tasks EXCEPT ![activeIndex] = done]),
          meta |-> [state.meta EXCEPT !.lastSavedAt = now]]

\* mutant: the completion entry replaces the history instead of extending it
reducer_manualComplete_resetHistory(state, dateKey, now) ==
    LET activeIndex == findActiveTaskIndex(state.tasks) IN
    IF activeIndex = 0 THEN state
    ELSE
      LET task == state.tasks[activeIndex]
          remaining == IF task.remainingSeconds # None
                       THEN task.remainingSeconds ELSE 0
          done == [task EXCEPT !.status = "completed",
                               !.remainingSeconds = 0,
                               !.completedAt = TRUE,
                               !.history = <<[type |-> "manual_complete",
                                              amountSeconds |-> remaining]>>]
      IN [score |-> state.score + manualCompleteAward,
          stats |-> updateStatsOnCompletion(state, dateKey),
          tasks |-> ensureAlignedTasks([state.tasks EXCEPT ![activeIndex] = done]),
          meta |-> [state.meta EXCEPT !.lastSavedAt = now]]

\* case 'manualComplete'; dateKey is the date of now
reducer_manualComplete(state, dateKey, now) ==
    LET activeIndex == findActiveTaskIndex(state.tasks) IN
    IF activeIndex = 0 THEN state
    ELSE
      LET task == state.tasks[activeIndex]
          remaining == IF task.remainingSeconds # None
                       THEN task.remainingSeconds ELSE 0
          done == [task EXCEPT !.status = "completed",
                               !.remainingSeconds = 0,
                               !.completedAt = TRUE,
                               !.history = Append(task.history,
                                   [type |-> "manual_complete",
                                    amountSeconds |-> remaining])]
      IN [score |-> state.score + manualCompleteAward,
          stats |-> updateStatsOnCompletion(state, dateKey),
          tasks |-> ensureAlignedTasks([state.tasks EXCEPT ![activeIndex] = done]),
          meta |-> [state.meta EXCEPT !.lastSavedAt = now]]

\* mutant: the revived task keeps its completedAt
addTimeTask_keepCompletedAt(task, seconds) ==
    LET previousAssigned == IF task.timeAssignedSeconds # None
                            THEN task.timeAssignedSeconds ELSE 0
        remaining == RemainingOf(task) + seconds
        wasFinished == IsTerminal(task)
    IN [task EXCEPT !.timeAssignedSeconds = previousAssigned + seconds,
                    !.remainingSeconds = remaining,
                    !.status = IF wasFinished /\ remaining > 0 THEN "in_progress"
                               ELSE IF IsTerminal(task) THEN task.status
                               ELSE "in_progress",
                    !.history = Append(task.history,
                        [type |-> "add_time", amountSeconds |-> seconds])]

\* mutant: a finished task stays finished, as in the base revision
addTimeTask_noRevive(task, seconds) ==
    LET previousAssigned == IF task.timeAssignedSeconds # None
                            THEN task.timeAssignedSeconds ELSE 0
        remaining == RemainingOf(task) + seconds
    IN [task EXCEPT !.timeAssignedSeconds = previousAssigned + seconds,
                    !.remainingSeconds = remaining,
                    !.status = IF IsTerminal(task) THEN task.status
                               ELSE "in_progress",
                    !.history = Append(task.history,
                        [type |-> "add_time", amountSeconds |-> seconds])]

\* mutant: the added seconds do not raise the budget
addTimeTask_budgetKept(task, seconds) ==
    LET remaining == RemainingOf(task) + seconds
        wasFinished == IsTerminal(task)
    IN [task EXCEPT !.timeAssignedSeconds = IF @ # None THEN @ ELSE 0,
                    !.remainingSeconds = remaining,
                    !.status = IF wasFinished /\ remaining > 0 THEN "in_progress"
                               ELSE IF IsTerminal(task) THEN task.status
                               ELSE "in_progress",
                    !.completedAt = IF wasFinished /\ remaining > 0 THEN FALSE
                                    ELSE task.completedAt,
                    !.history = Append(task.history,
                        [type |-> "add_time", amountSeconds |-> seconds])]

\* the map callback of case 'addTime', applied to the named task
addTimeTask(task, seconds) ==
    LET previousAssigned == IF task.timeAssignedSeconds # None
                            THEN task.timeAssignedSeconds ELSE 0
        remaining == RemainingOf(task) + seconds
        wasFinished == IsTerminal(task)
    IN [task EXCEPT !.timeAssignedSeconds = previousAssigned + seconds,
                    !.remainingSeconds = remaining,
                    !.status = IF wasFinished /\ remaining > 0 THEN "in_progress"
                               ELSE IF IsTerminal(task) THEN task.status
                               ELSE "in_progress",
                    !.completedAt = IF wasFinished /\ remaining > 0 THEN FALSE
                                    ELSE task.completedAt,
                    !.history = Append(task.history,
                        [type |-> "add_time", amountSeconds |-> seconds])]

addTimeScoreDelta(task, seconds) ==
    IF seconds > 0 /\ task.timeAssignedSeconds # None /\ task.timeAssignedSeconds > 0
    THEN -1 ELSE 0

RECURSIVE SumSeq(_)
SumSeq(s) == IF s = <<>> THEN 0 ELSE Head(s) + SumSeq(Tail(s))

\* scoreDelta as the map callback accumulates it over the tasks named taskId
SumDelta(ts, taskId, D(_)) ==
    SumSeq([i \in 1..Len(ts) |-> IF ts[i].id = taskId THEN D(ts[i]) ELSE 0])

\* case 'addTime'
reducer_addTime(state, taskId, seconds, now) ==
    LET D(task) == addTimeScoreDelta(task, seconds)
        F(task) == IF task.id # taskId THEN task ELSE addTimeTask(task, seconds)
    IN [state EXCEPT !.score = state.score + SumDelta(state.tasks, taskId, D),
                     !.tasks = ensureAlignedTasks(MapTasks(state.tasks, F)),
                     !.meta = [state.meta EXCEPT !.lastSavedAt = now]]

\* the map callback of case 'updateTask', applied to the named task
updateTaskTask(task, seconds) ==
    LET previousAssigned == IF task.timeAssignedSeconds # None
                            THEN task.timeAssignedSeconds ELSE 0
        previousRemaining == IF task.remainingSeconds # None
                             THEN task.remainingSeconds ELSE previousAssigned
        hasTime == seconds # None /\ seconds > 0
        nextRemaining == IF hasTime
                         THEN Max(0, previousRemaining + (seconds - previousAssigned))
                         ELSE None
        wasFinished == IsTerminal(task)
        revive == wasFinished /\ hasTime /\ nextRemaining > 0
    IN [task EXCEPT !.timeAssignedSeconds = IF hasTime THEN seconds ELSE None,
                    !.remainingSeconds = nextRemaining,
                    !.status = IF revive THEN "in_progress"
                               ELSE IF IsTerminal(task) THEN task.status
                               ELSE IF hasTime THEN "in_progress"
                               ELSE "pending",
                    !.completedAt = IF revive THEN FALSE ELSE task.completedAt]

updateTaskScoreDelta(task, seconds) ==
    LET previousAssigned == IF task.timeAssignedSeconds # None
                            THEN task.timeAssignedSeconds ELSE 0
    IN IF seconds # None /\ seconds > 0
          /\ seconds - previousAssigned > 0 /\ previousAssigned > 0
       THEN -1 ELSE 0

\* case 'updateTask'
reducer_updateTask(state, taskId, seconds, now) ==
    LET D(task) == updateTaskScoreDelta(task, seconds)
        F(task) == IF task.id # taskId THEN task ELSE updateTaskTask(task, seconds)
    IN [state EXCEPT !.score = state.score + SumDelta(state.tasks, taskId, D),
                     !.tasks = ensureAlignedTasks(MapTasks(state.tasks, F)),
                     !.meta = [state.meta EXCEPT !.lastSavedAt = now]]

\* mutant: deleting a finished task takes its completion back
reducer_deleteTask_uncount(state, taskId, now) ==
    LET keep(task) == task.id # taskId
        gone == {i \in 1..Len(state.tasks) :
                    state.tasks[i].id = taskId /\ IsTerminal(state.tasks[i])}
    IN [state EXCEPT
          !.tasks = ensureAlignedTasks(SelectSeq(state.tasks, keep)),
          !.stats = [state.stats EXCEPT
                        !.totalCompleted = state.stats.totalCompleted - Cardinality(gone)],
          !.meta = [state.meta EXCEPT !.lastSavedAt = now]]

\* case 'deleteTask'
reducer_deleteTask(state, taskId, now) ==
    LET keep(task) == task.id # taskId IN
    [state EXCEPT !.tasks = ensureAlignedTasks(SelectSeq(state.tasks, keep)),
                  !.meta = [state.meta EXCEPT !.lastSavedAt = now]]

\* mutant: a repeated id is taken again (`seen` is not consulted)
RECURSIVE reorderPick_repeats(_, _, _)
reorderPick_repeats(ts, orderedTaskIds, seen) ==
    IF orderedTaskIds = <<>> THEN <<>>
    ELSE
      LET id == Head(orderedTaskIds)
          known == \E i \in 1..Len(ts) : ts[i].id = id
      IN IF ~known
         THEN reorderPick_repeats(ts, Tail(orderedTaskIds), seen)
         ELSE <<CHOOSE t \in {ts[i] : i \in 1..Len(ts)} : t.id = id>>
              \o reorderPick_repeats(ts, Tail(orderedTaskIds), seen \cup {id})

\* the for loop of case 'reorderTasks': known ids, first occurrence only
RECURSIVE reorderPick(_, _, _)
reorderPick(ts, orderedTaskIds, seen) ==
    IF orderedTaskIds = <<>> THEN <<>>
    ELSE
      LET id == Head(orderedTaskIds)
          known == \E i \in 1..Len(ts) : ts[i].id = id
      IN IF ~known \/ id \in seen
         THEN reorderPick(ts, Tail(orderedTaskIds), seen)
         ELSE <<CHOOSE t \in {ts[i] : i \in 1..Len(ts)} : t.id = id>>
              \o reorderPick(ts, Tail(orderedTaskIds), seen \cup {id})

\* case 'reorderTasks'
reducer_reorderTasks(state, orderedTaskIds, now) ==
    IF Len(orderedTaskIds) = 0 THEN state
    ELSE
      LET reordered == reorderPick(state.tasks, orderedTaskIds, {})
          seen == {reordered[i].id : i \in 1..Len(reordered)}
          unseen(task) == task.id \notin seen
          trailing == SelectSeq(state.tasks, unseen)
      IN [state EXCEPT !.tasks = ensureAlignedTasks(reordered \o trailing),
                       !.meta = [state.meta EXCEPT !.lastSavedAt = now]]

\* case 'pauseTask'
reducer_pauseTask(state, taskId, now) ==
    LET F(task) == IF task.id # taskId THEN task
                   ELSE [task EXCEPT !.isPaused = TRUE]
    IN [state EXCEPT !.tasks = MapTasks(state.tasks, F),
                     !.meta = [state.meta EXCEPT !.lastSavedAt = now]]

\* case 'resumeTask'
reducer_resumeTask(state, taskId, now) ==
    LET F(task) == IF task.id # taskId THEN task
                   ELSE [task EXCEPT !.isPaused = FALSE]
    IN [state EXCEPT !.tasks = MapTasks(state.tasks, F),
                     !.meta = [state.meta EXCEPT !.lastSavedAt = now]]

\* ------------------------------------------- the reducer, base revision
\* case 'hydrate', 'addTask' and 'deleteTask' of the base revision read as
\* those of the extended one; the cases below differ.

\* the map callback of case 'tick' (base), applied to the active task
baseTickTask(task) ==
    IF task.remainingSeconds = None THEN task
    ELSE IF task.remainingSeconds <= 0 THEN task
    ELSE IF task.remainingSeconds - 1 > 0
    THEN [task EXCEPT !.remainingSeconds = task.remainingSeconds - 1,
                      !.status = "in_progress"]
    ELSE [task EXCEPT !.remainingSeconds = 0,
                      !.status = "struck",
                      !.completedAt = TRUE,
                      !.history = Append(task.history,
                          [type |-> "auto_complete",
                           amountSeconds |-> IF task.timeAssignedSeconds # None
                                             THEN task.timeAssignedSeconds ELSE 0])]

\* case 'tick' (base): a strike updates the stats, never the score
baseReducer_tick(state, dateKey) ==
    LET activeIndex == findActiveTaskIndex(state.tasks) IN
    IF activeIndex = 0 THEN state
    ELSE
      LET ticked == [i \in 1..Len(state.tasks) |->
                        IF i # activeIndex THEN state.tasks[i]
                        ELSE baseTickTask(state.tasks[i])]
          activeTask == state.tasks[activeIndex]
          becameStruck ==
              /\ activeTask.remainingSeconds # None
              /\ activeTask.remainingSeconds > 0
              /\ IsTerminal(ticked[activeIndex])
      IN [score |-> state.score,
          tasks |-> ensureAlignedTasks(ticked),
          stats |-> IF becameStruck THEN updateStatsOnCompletion(state, dateKey)
                    ELSE state.stats,
          meta |-> state.meta]

\* score awarded by a manual completion (base)
baseManualCompleteAward == 1

\* case 'manualComplete' (base)
baseReducer_manualComplete(state, dateKey, now) ==
    LET activeIndex == findActiveTaskIndex(state.tasks) IN
    IF activeIndex = 0 THEN state
    ELSE
      LET task == state.tasks[activeIndex]
          remaining == IF task.remainingSeconds # None
                       THEN task.remainingSeconds ELSE 0
          done == [task EXCEPT !.status = "completed",
                               !.remainingSeconds = 0,
                               !.completedAt = TRUE,
                               !.history = Append(task.history,
                                   [type |-> "manual_complete",
                                    amountSeconds |-> remaining])]
      IN [score |-> state.score + baseManualCompleteAward,
          stats |-> updateStatsOnCompletion(state, dateKey),
          tasks |-> ensureAlignedTasks([state.tasks EXCEPT ![activeIndex] = done]),
          meta |-> [state.meta EXCEPT !.lastSavedAt = now]]

\* the map callback of case 'addTime' (base): a finished task stays finished
baseAddTimeTask(task, seconds) ==
    LET totalAssigned == (IF task.timeAssignedSeconds # None
                          THEN task.timeAssignedSeconds ELSE 0) + seconds
        remaining == RemainingOf(task) + seconds
    IN [task EXCEPT !.timeAssignedSeconds = totalAssigned,
                    !.remainingSeconds = remaining,
                    !.status = IF IsTerminal(task) THEN task.status
                               ELSE "in_progress",
                    !.history = Append(task.history,
                        [type |-> "add_time", amountSeconds |-> seconds])]

\* case 'addTime' (base): `score: state.score - 1`, whatever the task
baseReducer_addTime(state, taskId, seconds, now) ==
    LET F(task) == IF task.id # taskId THEN task ELSE baseAddTimeTask(task, seconds)
    IN [state EXCEPT !.score = state.score - 1,
                     !.tasks = ensureAlignedTasks(MapTasks(state.tasks, F)),
                     !.meta = [state.meta EXCEPT !.lastSavedAt = now]]

\* the map callback of case 'updateTask' (base)
baseUpdateTaskTask(task, seconds) ==
    LET previousAssigned == IF task.timeAssignedSeconds # None
                            THEN task.timeAssignedSeconds ELSE 0
        previousRemaining == IF task.remainingSeconds # None
                             THEN task.remainingSeconds ELSE previousAssigned
        hasTime == seconds # None /\ seconds > 0
        nextRemaining == IF hasTime
                         THEN Max(0, previousRemaining + (seconds - previousAssigned))
                         ELSE None
    IN [task EXCEPT !.timeAssignedSeconds = IF hasTime THEN seconds ELSE None,
                    !.remainingSeconds = nextRemaining,
                    !.status = IF IsTerminal(task) THEN task.status
                               ELSE IF hasTime THEN "in_progress"
                               ELSE "pending"]

\* scoreDelta of case 'updateTask' (base): `if (diff > 0)`
baseUpdateTaskScoreDelta(task, seconds) ==
    LET previousAssigned == IF task.timeAssignedSeconds # None
                            THEN task.timeAssignedSeconds ELSE 0
    IN IF seconds # None /\ seconds > 0 /\ seconds - previousAssigned > 0
       THEN -1 ELSE 0

\* case 'updateTask' (base)
baseReducer_updateTask(state, taskId, seconds, now) ==
    LET D(task) == baseUpdateTaskScoreDelta(task, seconds)
        F(task) == IF task.id # taskId THEN task
                   ELSE baseUpdateTaskTask(task, seconds)
    IN [state EXCEPT !.score = state.score + SumDelta(state.tasks, taskId, D),
                     !.tasks = ensureAlignedTasks(MapTasks(state.tasks, F)),
                     !.meta = [state.meta EXCEPT !.lastSavedAt = now]]

\* ------------------------------------------------------------- the system
State == [score |-> score, tasks |-> tasks, stats |-> stats, meta |-> meta]

NoArg == None

\* the instant of the next operation (new Date() in the action creators); the
\* clock has advanced since the previous operation
Now == steps + 1

\* the dispatch of one action by the revision that runs
Reduce_tick(state, dateKey) ==
    IF variant = "base" THEN baseReducer_tick(state, dateKey)
    ELSE reducer_tick(state, dateKey)

Reduce_manualComplete(state, dateKey, now) ==
    IF variant = "base" THEN baseReducer_manualComplete(state, dateKey, now)
    ELSE reducer_manualComplete(state, dateKey, now)

Reduce_addTime(state, taskId, seconds, now) ==
    IF variant = "base" THEN baseReducer_addTime(state, taskId, seconds, now)
    ELSE reducer_addTime(state, taskId, seconds, now)

Reduce_updateTask(state, taskId, seconds, now) ==
    IF variant = "base" THEN baseReducer_updateTask(state, taskId, seconds, now)
    ELSE reducer_updateTask(state, taskId, seconds, now)

\* the parts of the program outside the reducer, before they start
\* useAppStore's refs at the first render; timers counts the pending timeouts
\* and debounceLive tells whether the one held by debounceRef is among them;
\* inFlight holds the snapshots of the saveState calls not yet settled.  The
\* last six fields are history: what happened since the last saveState call.
StoreIdle ==
    [api |-> FALSE, hydrated |-> FALSE, loading |-> FALSE,
     stateRef |-> createEmptyState(0), pendingPersist |-> FALSE,
     timers |-> 0, debounceLive |-> FALSE, lastAction |-> "hydrate",
     prevTotals |-> [totalCompleted |-> 0, todayCompleted |-> 0],
     inFlight |-> <<>>,
     queuedSinceSave |-> FALSE, actionSinceSave |-> FALSE,
     changedSinceSave |-> FALSE, unsavedStrike |-> FALSE, rejected |-> FALSE,
     savesSinceQueue |-> 0]

\* dispatchTick's refs; reference, largest, dispatched and monotone are
\* history: the first timestamp, the largest one seen, the tick actions
\* dispatched since the first, and whether the timestamps never went back
TickerIdle ==
    [lastTickTimestamp |-> None, tickCarryover |-> 0, reference |-> None,
     largest |-> None, dispatched |-> 0, monotone |-> TRUE]

\* what a file holds: nothing (the file does not exist), a document written
\* in part, or the whole document number n >= 1
Absent == 0
Torn == -1

\* the three files of the state manager, the process stopped.  pc is the
\* position of the running writeAtomic; saving is its document; before is
\* what readStateFile gave when it started; docs counts the documents made.
DiskIdle ==
    [files |-> [temp |-> Absent, primary |-> Absent, backup |-> Absent],
     pc |-> "stopped", saving |-> Absent, before |-> Absent, docs |-> 0]

CalcIdle == [fn |-> "none"]

\* App's useState values at the first render.  openedFor, submittedTo,
\* batchActive and batch are history: the task the Add Time modal was opened
\* for, the task the last submission named, and the active task and the ids
\* of the last deleteTasks call.
UiIdle ==
    [selectedTaskId |-> None, selectedTaskIds |-> {}, lastSelectedTaskId |-> None,
     showDeleteConfirm |-> FALSE, tasksToDelete |-> <<>>, addTimeOpen |-> FALSE,
     openedFor |-> None, submittedTo |-> None, batchActive |-> None, batch |-> {}]

Apply(next, op, id, n, iterations) ==
    /\ steps < MaxSteps
    /\ steps' = steps + 1
    /\ tasks' = next.tasks
    /\ score' = next.score
    /\ stats' = next.stats
    /\ meta' = next.meta
    /\ last' = [op |-> op, id |-> id, n |-> n, iterations |-> iterations]
    /\ UNCHANGED <<variant, store, ticker, disk, calc, ui>>

\* the reducer's state at the first render
InitState ==
    /\ variant \in Variants
    /\ tasks = createEmptyState(0).tasks
    /\ score = createEmptyState(0).score
    /\ stats = createEmptyState(0).stats
    /\ meta = createEmptyState(0).meta
    /\ nextId = 1
    /\ steps = 0
    /\ last = [op |-> "init", id |-> NoArg, n |-> NoArg, iterations |-> 0]

Init ==
    /\ InitState
    /\ store = StoreIdle
    /\ ticker = TickerIdle
    /\ disk = DiskIdle
    /\ calc = CalcIdle
    /\ ui = UiIdle

Tick ==
    /\ \E dateKey \in Days : Apply(Reduce_tick(State, dateKey), "tick", NoArg, NoArg, 0)
    /\ UNCHANGED nextId

AddTask ==
    /\ nextId <= MaxTasks
    /\ \E seconds \in AddTaskSeconds :
          Apply(reducer_addTask(State, nextId, seconds, Now), "addTask",
                nextId, NoArg, 0)
    /\ nextId' = nextId + 1

ManualComplete ==
    /\ \E dateKey \in Days :
          Apply(Reduce_manualComplete(State, dateKey, Now), "manualComplete",
                NoArg, NoArg, 0)
    /\ UNCHANGED nextId

AddTime ==
    /\ \E taskId \in IDs, seconds \in AddTimeSeconds :
          Apply(Reduce_addTime(State, taskId, seconds, Now), "addTime",
                taskId, NoArg, 0)
    /\ UNCHANGED nextId

UpdateTask ==
    /\ \E taskId \in IDs, seconds \in UpdateTaskSeconds :
          Apply(Reduce_updateTask(State, taskId, seconds, Now), "updateTask",
                taskId, NoArg, 0)
    /\ UNCHANGED nextId

DeleteTask ==
    /\ \E taskId \in IDs :
          Apply(reducer_deleteTask(State, taskId, Now), "deleteTask",
                taskId, NoArg, 0)
    /\ UNCHANGED nextId

IdLists == UNION {[1..n -> IDs] : n \in 0..MaxTasks}

ReorderTasks ==
    /\ variant = "extended"
    /\ \E orderedTaskIds \in IdLists :
          Apply(reducer_reorderTasks(State, orderedTaskIds, Now), "reorderTasks",
                NoArg, NoArg, 0)
    /\ UNCHANGED nextId

PauseTask ==
    /\ variant = "extended"
    /\ \E taskId \in IDs :
          Apply(reducer_pauseTask(State, taskId, Now), "pauseTask", taskId, NoArg, 0)
    /\ UNCHANGED nextId

ResumeTask ==
    /\ variant = "extended"
    /\ \E taskId \in IDs :
          Apply(reducer_resumeTask(State, taskId, Now), "resumeTask", taskId, NoArg, 0)
    /\ UNCHANGED nextId

\* A restart deltaMs after the last save: the main process rehydrates the
\* persisted document (loadState), the renderer applies it with 'hydrate'.
loadState(deltaMs, todayKey) ==
    LET hydrated == rehydrateState(State, deltaMs, todayKey, Now)
        loaded == reducer_hydrate(State, hydrated)
    IN [score |-> loaded.score, tasks |-> loaded.tasks, stats |-> loaded.stats,
        meta |-> loaded.meta, iterations |-> hydrated.iterations]

Rehydrate ==
    /\ \E deltaMs \in DeltasMs, todayKey \in Days :
          LET loaded == loadState(deltaMs, todayKey) IN
          Apply(loaded, "rehydrate", NoArg, deltaMs, loaded.iterations)
    /\ UNCHANGED nextId

Next ==
    \/ Tick
    \/ AddTask
    \/ ManualComplete
    \/ AddTime
    \/ UpdateTask
    \/ DeleteTask
    \/ ReorderTasks
    \/ PauseTask
    \/ ResumeTask
    \/ Rehydrate

Spec == Init /\ [][Next]_vars

\* ------------------------------------------------------------- properties
TaskIds(ts) == {ts[i].id : i \in 1..Len(ts)}
OpenIdx(ts) == {i \in 1..Len(ts) : ~IsTerminal(ts[i])}
InProgressIdx(ts) == {i \in 1..Len(ts) : ts[i].status = "in_progress"}
SumRemaining(ts) == SumSeq([i \in 1..Len(ts) |-> Seconds(ts[i].remainingSeconds)])
LastEntry(task) == task.history[Len(task.history)]

\* C1 (as stated): at most one task has a non-terminal status (pending or
\* in_progress), and it is the first non-terminal task in queue order.
C1_SingleNonTerminal ==
    /\ Cardinality(OpenIdx(tasks)) <= 1
    /\ \A i \in OpenIdx(tasks) : i = findNextActiveIndex(tasks)

\* C1 (amended): at most one task is in_progress, and it is the first
\* non-terminal task in queue order; the other non-terminal tasks are pending.
C1_SingleActive ==
    /\ Cardinality(InProgressIdx(tasks)) <= 1
    /\ \A i \in InProgressIdx(tasks) : i = findNextActiveIndex(tasks)
    /\ \A i \in OpenIdx(tasks) :
          i # findNextActiveIndex(tasks) => tasks[i].status = "pending"

\* C1 witness: deleting the active task of a three-task queue promotes the
\* next task, and the one behind it stays pending.
C1_Witness ==
    /\ last.op = "deleteTask"
    /\ last.id = 1
    /\ Len(tasks) = 2
    /\ tasks[1].status = "in_progress"
    /\ tasks[2].status = "pending"
    /\ tasks[2].remainingSeconds > 0

\* C2: at most one task is in_progress; it is the first non-terminal task and
\* its remaining time is > 0; the first non-terminal task is pending exactly
\* when its remaining/assigned time is 0 or absent; every later non-terminal
\* task is pending.
C2_StatusRealigned ==
    LET first == findNextActiveIndex(tasks) IN
    /\ Cardinality(InProgressIdx(tasks)) <= 1
    /\ \A i \in InProgressIdx(tasks) :
          i = first /\ tasks[i].remainingSeconds > 0
    /\ first # 0 =>
          (tasks[first].status = "pending" <=> RemainingOf(tasks[first]) = 0)
    /\ \A i \in OpenIdx(tasks) : i > first => tasks[i].status = "pending"

\* C2 witness: after a manual completion the new first non-terminal task is
\* untimed and pending, with a timed pending task queued behind it.
C2_Witness ==
    /\ last.op = "manualComplete"
    /\ \E i, j \in OpenIdx(tasks) :
          /\ i = findNextActiveIndex(tasks)
          /\ tasks[i].status = "pending"
          /\ RemainingOf(tasks[i]) = 0
          /\ j > i
          /\ tasks[j].remainingSeconds > 0
          /\ tasks[j].status = "pending"

\* n ticks in a row, all stamped with the same date key
RECURSIVE TickN(_, _, _)
TickN(state, n, dateKey) ==
    IF n = 0 THEN state ELSE TickN(Reduce_tick(state, dateKey), n - 1, dateKey)

\* what the catch-up equivalence compares
CatchUpView(ts, st) ==
    [tasks |-> [i \in 1..Len(ts) |->
                   [status |-> ts[i].status,
                    remainingSeconds |-> ts[i].remainingSeconds,
                    completedAt |-> ts[i].completedAt,
                    history |-> ts[i].history]],
     totalCompleted |-> st.totalCompleted,
     todayCompleted |-> st.todayCompleted]

\* C3: for every (aligned) state S and every N >= 0, autoAdvance(S, N, t)
\* yields the same task list (status, remainingSeconds, completedAt presence,
\* history types and amounts) and the same stats counters as N tick actions.
\* Stated for the states in which no task is paused, with every tick on the
\* day of t.
C3_CatchUpEquivalence ==
    (\A i \in 1..Len(tasks) : ~tasks[i].isPaused) =>
    \A n \in 0..MaxElapsed, dateKey \in Days :
        LET auto == autoAdvance(State, n, dateKey)
            ticked == TickN(State, n, dateKey)
        IN CatchUpView(auto.tasks, auto.stats) = CatchUpView(ticked.tasks, ticked.stats)

\* the open tasks in queue order, as a sequence of indices
RECURSIVE OpenSeqFrom(_, _)
OpenSeqFrom(ts, i) ==
    IF i > Len(ts) THEN <<>>
    ELSE (IF IsTerminal(ts[i]) THEN <<>> ELSE <<i>>) \o OpenSeqFrom(ts, i + 1)

\* the timed open tasks that precede the first untimed open task
RECURSIVE TimedPrefix(_, _)
TimedPrefix(ts, open) ==
    IF open = <<>> \/ RemainingOf(ts[Head(open)]) <= 0 THEN <<>>
    ELSE <<Head(open)>> \o TimedPrefix(ts, Tail(open))

TimedRun(ts) == TimedPrefix(ts, OpenSeqFrom(ts, 1))

\* cumulative remaining time of the first k tasks of a run
CumRemaining(ts, run, k) == SumSeq([j \in 1..k |-> RemainingOf(ts[run[j]])])

\* how many tasks of the run an elapsed time of n seconds covers entirely
CoveredCount(ts, run, n) ==
    CHOOSE k \in 0..Len(run) :
        /\ CumRemaining(ts, run, k) <= n
        /\ \A m \in (k + 1)..Len(run) : CumRemaining(ts, run, m) > n

NewlyStruck(before, after) ==
    {i \in 1..Len(before) : ~IsTerminal(before[i]) /\ after[i].status = "struck"}

C4_Consumption(before, after, n) ==
    LET run == TimedRun(before)
        k == CoveredCount(before, run, n)
        leftover == n - CumRemaining(before, run, k)
    IN
    /\ Len(after) = Len(before)
    /\ NewlyStruck(before, after) = {run[j] : j \in 1..k}
    /\ k < Len(run) =>
          /\ after[run[k + 1]].remainingSeconds
                = RemainingOf(before[run[k + 1]]) - leftover
          /\ after[run[k + 1]].status = "in_progress"
    /\ \A i \in 1..Len(before) :
          (i \notin {run[j] : j \in 1..Min(k + 1, Len(run))})
              => after[i].remainingSeconds = before[i].remainingSeconds
    /\ Cardinality({i \in 1..Len(before) :
                       /\ after[i].remainingSeconds > 0
                       /\ after[i].remainingSeconds < Seconds(before[i].remainingSeconds)}) <= 1
    /\ SumRemaining(before) - SumRemaining(after)
          = Min(n, CumRemaining(before, run, Len(run)))

\* C4: rehydration with N elapsed seconds strikes, in queue order, exactly the
\* longest run of consecutive timed non-terminal tasks whose cumulative
\* remaining time is <= N, decrements the next timed task by the leftover and
\* leaves it in_progress; at most one task ends partially consumed; the sum of
\* remainingSeconds decreases by min(N, remaining time of the timed run).
C4_CatchUpConsumption ==
    \A n \in 0..MaxElapsed, ms \in {0, MsPerSecond - 1}, todayKey \in Days :
        C4_Consumption(tasks, loadState(n * MsPerSecond + ms, todayKey).tasks, n)

\* C4 witness: a rehydration struck the first task and stopped inside the second.
C4_Witness ==
    /\ last.op = "rehydrate"
    /\ Len(tasks) >= 2
    /\ tasks[1].status = "struck"
    /\ Len(tasks[1].history) > 0
    /\ LastEntry(tasks[1]).type = "auto_complete"
    /\ tasks[2].status = "in_progress"
    /\ tasks[2].remainingSeconds > 0
    /\ tasks[2].remainingSeconds < tasks[2].timeAssignedSeconds
    /\ elapsedSecondsOf(last.n)
          = LastEntry(tasks[1]).amountSeconds
              + (tasks[2].timeAssignedSeconds - tasks[2].remainingSeconds)

C5_Bookkeeping(before, after, statsBefore, statsAfter, n) ==
    LET struck == NewlyStruck(before, after)
        run == TimedRun(before)
    IN
    /\ \A i \in struck :
          /\ after[i].remainingSeconds = 0
          /\ after[i].completedAt
          /\ after[i].history = Append(before[i].history,
                 [type |-> "auto_complete",
                  amountSeconds |-> RemainingOf(before[i])])
    /\ \A i \in (1..Len(before)) \ struck : after[i].history = before[i].history
    /\ statsAfter.totalCompleted = statsBefore.totalCompleted + Cardinality(struck)
    /\ n >= CumRemaining(before, run, Len(run)) =>
          \A i \in (1..Len(before)) \ struck :
              /\ after[i].remainingSeconds = before[i].remainingSeconds
              /\ IsTerminal(after[i]) = IsTerminal(before[i])

\* C5: every task struck during one rehydration ends struck with
\* remainingSeconds 0, completedAt set and exactly one new auto_complete entry
\* whose amount is the task's remaining time before the rehydration;
\* totalCompleted grows by the number of tasks struck; elapsed time left over
\* after the last timed task is discarded.
C5_StrikeBookkeeping ==
    \A n \in 0..MaxElapsed, todayKey \in Days :
        LET loaded == loadState(n * MsPerSecond, todayKey) IN
        C5_Bookkeeping(tasks, loaded.tasks, stats, loaded.stats, n)

\* C5 witness: a partly counted-down task (remaining < assigned) was struck by
\* a rehydration whose elapsed time exceeds its remaining time.
C5_Witness ==
    /\ last.op = "rehydrate"
    /\ \E i \in 1..Len(tasks) :
          /\ tasks[i].status = "struck"
          /\ tasks[i].remainingSeconds = 0
          /\ Len(tasks[i].history) = 1
          /\ LastEntry(tasks[i]).type = "auto_complete"
          /\ LastEntry(tasks[i]).amountSeconds < tasks[i].timeAssignedSeconds
          /\ LastEntry(tasks[i]).amountSeconds < elapsedSecondsOf(last.n)
    /\ OpenIdx(tasks) = {}
    /\ stats.totalCompleted = 1

\* the first non-terminal task exists and has no timer
UntimedActive(ts) ==
    /\ findNextActiveIndex(ts) # 0
    /\ RemainingOf(ts[findNextActiveIndex(ts)]) = 0

\* C6: if the first non-terminal task has remaining time 0 or absent, the
\* catch-up strikes no task, changes no task's remainingSeconds or history and
\* leaves stats unchanged, whatever the elapsed time and whatever is queued
\* behind it.
C6_UntimedBlocksCatchUp ==
    UntimedActive(tasks) =>
        \A deltaMs \in DeltasMs, todayKey \in Days :
            LET loaded == loadState(deltaMs, todayKey) IN
            /\ NewlyStruck(tasks, loaded.tasks) = {}
            /\ Len(loaded.tasks) = Len(tasks)
            /\ \A i \in 1..Len(tasks) :
                  /\ loaded.tasks[i].remainingSeconds = tasks[i].remainingSeconds
                  /\ loaded.tasks[i].history = tasks[i].history
                  /\ loaded.tasks[i].status = tasks[i].status
            /\ loaded.stats = stats

\* C6 witness: a rehydration with elapsed time > 0 met an untimed active task
\* with a timed task queued behind it.
C6_Witness ==
    /\ last.op = "rehydrate"
    /\ elapsedSecondsOf(last.n) > 0
    /\ UntimedActive(tasks)
    /\ \E j \in OpenIdx(tasks) :
          j > findNextActiveIndex(tasks) /\ tasks[j].remainingSeconds > 0

\* C7: rehydrating with lastSavedAt later than now (negative elapsed)
\* decrements no remainingSeconds, strikes no task and changes no stats; the
\* result is the result of rehydrating with zero elapsed time.
C7_ClockSetBackward ==
    \A deltaMs \in {d \in DeltasMs : d < 0}, todayKey \in Days :
        LET loaded == loadState(deltaMs, todayKey)
            zero == loadState(0, todayKey)
        IN
        /\ Len(loaded.tasks) = Len(tasks)
        /\ \A i \in 1..Len(tasks) :
              loaded.tasks[i].remainingSeconds = tasks[i].remainingSeconds
        /\ NewlyStruck(tasks, loaded.tasks) = {}
        /\ loaded.stats = stats
        /\ loaded.tasks = zero.tasks
        /\ loaded.stats = zero.stats
        /\ loaded.score = zero.score

\* C7 witness: a rehydration with negative elapsed time met a running timer.
C7_Witness ==
    /\ last.op = "rehydrate"
    /\ last.n <= -MsPerSecond
    /\ findNextActiveIndex(tasks) # 0
    /\ tasks[findNextActiveIndex(tasks)].status = "in_progress"
    /\ tasks[findNextActiveIndex(tasks)].remainingSeconds > 0

C9_LoopTerminates ==
    \A n \in 0..MaxElapsed, todayKey \in Days :
        autoAdvance(State, n, todayKey).iterations <= Cardinality(OpenIdx(tasks)) + 1

\* C9 witness: the loop struck every task of a two-task queue and ran one
\* more iteration to find no active task left.
C9_Witness ==
    /\ last.op = "rehydrate"
    /\ Len(tasks) = 2
    /\ \A i \in 1..Len(tasks) :
          tasks[i].status = "struck" /\ LastEntry(tasks[i]).type = "auto_complete"
    /\ last.iterations = 3

\* C10: deleteTask never alters score, totalCompleted or todayCompleted; every
\* remaining task keeps its remainingSeconds and history, and the relative
\* queue order is preserved.
C10_DeleteConservesScoreAndStats ==
    \A taskId \in IDs :
        LET kept == SelectSeq(tasks, LAMBDA task : task.id # taskId)
            next == reducer_deleteTask(State, taskId, Now)
        IN
        /\ next.score = score
        /\ next.stats = stats
        /\ Len(next.tasks) = Len(kept)
        /\ \A i \in 1..Len(kept) :
              /\ next.tasks[i].id = kept[i].id
              /\ next.tasks[i].remainingSeconds = kept[i].remainingSeconds
              /\ next.tasks[i].history = kept[i].history

\* C10 witness: the only finished task was deleted from a queue that still
\* holds an unfinished task; the completion stays counted.
C10_Witness ==
    /\ last.op = "deleteTask"
    /\ last.id < nextId
    /\ last.id \notin TaskIds(tasks)
    /\ Len(tasks) >= 1
    /\ stats.totalCompleted >= 1
    /\ score > 0
    /\ \A i \in 1..Len(tasks) : ~IsTerminal(tasks[i]) /\ tasks[i].history = <<>>

\* every state one operation of the running revision can produce from the
\* current state, with the operation and the task it names
StateOf(r) == [score |-> r.score, tasks |-> r.tasks, stats |-> r.stats, meta |-> r.meta]

Outcome(op, id, r) == [op |-> op, id |-> id, next |-> StateOf(r)]

Outcomes ==
    {Outcome("tick", NoArg, Reduce_tick(State, d)) : d \in Days}
    \cup {Outcome("addTask", nextId, reducer_addTask(State, nextId, s, Now)) :
             s \in AddTaskSeconds}
    \cup {Outcome("manualComplete", NoArg, Reduce_manualComplete(State, d, Now)) :
             d \in Days}
    \cup {Outcome("addTime", x[1], Reduce_addTime(State, x[1], x[2], Now)) :
             x \in IDs \X AddTimeSeconds}
    \cup {Outcome("updateTask", x[1], Reduce_updateTask(State, x[1], x[2], Now)) :
             x \in IDs \X UpdateTaskSeconds}
    \cup {Outcome("deleteTask", id, reducer_deleteTask(State, id, Now)) : id \in IDs}
    \cup {Outcome("rehydrate", NoArg, loadState(x[1], x[2])) : x \in DeltasMs \X Days}
    \cup (IF variant # "extended" THEN {}
          ELSE {Outcome("reorderTasks", NoArg, reducer_reorderTasks(State, l, Now)) :
                   l \in IdLists}
               \cup {Outcome("pauseTask", id, reducer_pauseTask(State, id, Now)) :
                        id \in IDs}
               \cup {Outcome("resumeTask", id, reducer_resumeTask(State, id, Now)) :
                        id \in IDs})

IsPrefix(s, t) == Len(s) <= Len(t) /\ SubSeq(t, 1, Len(s)) = s

\* C11: for every reducer action and for rehydration, each task present
\* before and after the step has a history that has its previous history as a
\* prefix and is longer by zero or one entry.
C11_HistoryAppendOnly ==
    \A o \in Outcomes :
        \A i \in 1..Len(tasks), j \in 1..Len(o.next.tasks) :
            tasks[i].id = o.next.tasks[j].id =>
                /\ IsPrefix(tasks[i].history, o.next.tasks[j].history)
                /\ Len(o.next.tasks[j].history) <= Len(tasks[i].history) + 1

\* C11 witness: a manual completion appended its entry behind the add_time
\* entry the task already carried.
C11_Witness ==
    /\ last.op = "manualComplete"
    /\ Len(tasks) >= 1
    /\ Len(tasks[1].history) = 2
    /\ tasks[1].history[1].type = "add_time"
    /\ tasks[1].history[2].type = "manual_complete"

\* C12: an addTime, updateTask, deleteTask, pauseTask or resumeTask whose
\* taskId matches no task of the queue yields a state equal to the input
\* state (same score, stats, task list and meta).
C12_UnknownIdNoOp ==
    \A taskId \in IDs \ TaskIds(tasks) :
        /\ \A s \in AddTimeSeconds : Reduce_addTime(State, taskId, s, Now) = State
        /\ \A s \in UpdateTaskSeconds :
              Reduce_updateTask(State, taskId, s, Now) = State
        /\ reducer_deleteTask(State, taskId, Now) = State
        /\ variant = "extended" =>
              /\ reducer_pauseTask(State, taskId, Now) = State
              /\ reducer_resumeTask(State, taskId, Now) = State

\* C13: a task whose status is completed or struck becomes pending or
\* in_progress only as the direct result of an addTime action that names it;
\* no other reducer action and no rehydration does that.
C13_TerminalLeftOnlyByAddTime ==
    \A o \in Outcomes :
        \A i \in 1..Len(tasks), j \in 1..Len(o.next.tasks) :
            (/\ tasks[i].id = o.next.tasks[j].id
             /\ IsTerminal(tasks[i])
             /\ ~IsTerminal(o.next.tasks[j]))
                => (o.op = "addTime" /\ o.id = tasks[i].id)

\* the score a strike by tick / a manual completion earns in the running revision
StrikeAward == IF variant = "base" THEN 0 ELSE tickStrikeAward
CompletionAward ==
    IF variant = "base" THEN baseManualCompleteAward ELSE manualCompleteAward

\* every task but the one at index a keeps its remaining time and its history
OthersKept(before, after, a) ==
    /\ Len(after) = Len(before)
    /\ \A i \in (1..Len(before)) \ {a} :
          /\ after[i].id = before[i].id
          /\ after[i].remainingSeconds = before[i].remainingSeconds
          /\ after[i].history = before[i].history

\* C14: when the active task (first non-terminal) is not paused and has
\* remainingSeconds r > 0, one tick sets its remainingSeconds to r - 1; if
\* r - 1 = 0 the task becomes struck with completedAt set and exactly one
\* auto_complete entry appended, totalCompleted grows by 1 and the score by the
\* revision's strike award (+1 extended, 0 base); if r - 1 > 0 stats and score
\* are unchanged; no other task's remainingSeconds or history changes.
C14_TickEffect ==
    LET a == findNextActiveIndex(tasks) IN
    (a # 0 /\ ~tasks[a].isPaused /\ tasks[a].remainingSeconds > 0) =>
        \A dateKey \in Days :
            LET next == Reduce_tick(State, dateKey)
                r == tasks[a].remainingSeconds
            IN
            /\ OthersKept(tasks, next.tasks, a)
            /\ next.tasks[a].id = tasks[a].id
            /\ next.tasks[a].remainingSeconds = r - 1
            /\ r - 1 = 0 =>
                  /\ next.tasks[a].status = "struck"
                  /\ next.tasks[a].completedAt
                  /\ Len(next.tasks[a].history) = Len(tasks[a].history) + 1
                  /\ IsPrefix(tasks[a].history, next.tasks[a].history)
                  /\ LastEntry(next.tasks[a]).type = "auto_complete"
                  /\ next.stats.totalCompleted = stats.totalCompleted + 1
                  /\ next.score = score + StrikeAward
            /\ r - 1 > 0 =>
                  /\ next.tasks[a].history = tasks[a].history
                  /\ ~IsTerminal(next.tasks[a])
                  /\ next.stats = stats
                  /\ next.score = score

\* C14 witness: a tick of the extended reducer struck the first task of a
\* two-task queue and earned the strike award; the second task took over.
C14_Witness ==
    /\ last.op = "tick"
    /\ variant = "extended"
    /\ Len(tasks) = 2
    /\ tasks[1].status = "struck"
    /\ LastEntry(tasks[1]).type = "auto_complete"
    /\ tasks[2].status = "in_progress"
    /\ tasks[2].history = <<>>
    /\ score = tickStrikeAward
    /\ stats.totalCompleted = 1

\* what a tick must leave alone while the active task is paused
PauseView(state) ==
    [score |-> state.score, stats |-> state.stats,
     tasks |-> [i \in 1..Len(state.tasks) |->
                   [id |-> state.tasks[i].id,
                    remainingSeconds |-> state.tasks[i].remainingSeconds,
                    status |-> state.tasks[i].status,
                    history |-> state.tasks[i].history]]]

\* every field of every task but isPaused, and the score and stats
PauseFrame(state) ==
    [score |-> state.score, stats |-> state.stats,
     tasks |-> [i \in 1..Len(state.tasks) |->
                   [state.tasks[i] EXCEPT !.isPaused = FALSE]]]

\* C15: while the active task has isPaused = true, any number of tick actions
\* leave score, stats and every task's remainingSeconds, status and history
\* unchanged; pauseTask and resumeTask change only isPaused (and updatedAt) of
\* the named task, never its status or remaining time.
C15_PauseSuspends ==
    LET a == findNextActiveIndex(tasks) IN
    variant = "extended" =>
        /\ (a # 0 /\ tasks[a].isPaused) =>
              \A n \in 0..MaxElapsed, dateKey \in Days :
                  PauseView(TickN(State, n, dateKey)) = PauseView(State)
        /\ \A taskId \in IDs :
              LET paused == reducer_pauseTask(State, taskId, Now)
                  resumed == reducer_resumeTask(State, taskId, Now)
              IN
              /\ PauseFrame(paused) = PauseFrame(State)
              /\ PauseFrame(resumed) = PauseFrame(State)
              /\ \A i \in 1..Len(tasks) :
                    /\ paused.tasks[i].isPaused
                          = (tasks[i].id = taskId \/ tasks[i].isPaused)
                    /\ resumed.tasks[i].isPaused
                          = (tasks[i].id # taskId /\ tasks[i].isPaused)

\* C15 witness: a tick met a paused active task with a running timer and left
\* it where it was.
C15_Witness ==
    /\ last.op = "tick"
    /\ findNextActiveIndex(tasks) # 0
    /\ tasks[findNextActiveIndex(tasks)].isPaused
    /\ tasks[findNextActiveIndex(tasks)].status = "in_progress"
    /\ tasks[findNextActiveIndex(tasks)].remainingSeconds
          = tasks[findNextActiveIndex(tasks)].timeAssignedSeconds
    /\ tasks[findNextActiveIndex(tasks)].history = <<>>

\* C16: when an active task exists with remaining time r (0 if untimed),
\* manualComplete makes exactly that task completed with remainingSeconds 0
\* and completedAt set, appends exactly one manual_complete entry with
\* amountSeconds = r, adds 1 to totalCompleted and the completion award to the
\* score (+2 extended, +1 base); with no active task the state is unchanged.
C16_ManualComplete ==
    LET a == findNextActiveIndex(tasks) IN
    \A dateKey \in Days :
        LET next == Reduce_manualComplete(State, dateKey, Now) IN
        IF a = 0 THEN next = State
        ELSE
          LET r == Seconds(tasks[a].remainingSeconds) IN
          /\ OthersKept(tasks, next.tasks, a)
          /\ \A i \in (1..Len(tasks)) \ {a} :
                /\ IsTerminal(next.tasks[i]) = IsTerminal(tasks[i])
                /\ next.tasks[i].completedAt = tasks[i].completedAt
          /\ next.tasks[a].id = tasks[a].id
          /\ next.tasks[a].status = "completed"
          /\ next.tasks[a].remainingSeconds = 0
          /\ next.tasks[a].completedAt
          /\ next.tasks[a].history = Append(tasks[a].history,
                 [type |-> "manual_complete", amountSeconds |-> r])
          /\ next.stats.totalCompleted = stats.totalCompleted + 1
          /\ next.score = score + CompletionAward

\* C16 witness: a task of 2 seconds was completed by hand with 1 second left;
\* the entry records the second left and the extended reducer awarded 2.
C16_Witness ==
    /\ last.op = "manualComplete"
    /\ variant = "extended"
    /\ Len(tasks) = 1
    /\ tasks[1].status = "completed"
    /\ tasks[1].timeAssignedSeconds = 2
    /\ tasks[1].history = <<[type |-> "manual_complete", amountSeconds |-> 1]>>
    /\ score = manualCompleteAward
    /\ stats.totalCompleted = 1

\* C17: addTime(taskId, s) with s > 0 on an existing task increases both its
\* timeAssignedSeconds and its remaining time by exactly s, appends exactly
\* one add_time entry with amountSeconds = s, and changes the score by -1 if
\* the task had timeAssignedSeconds > 0 before the call and by 0 otherwise;
\* stats are unchanged.
C17_AddTimeAmountsAndScore ==
    \A i \in 1..Len(tasks), s \in AddTimeSeconds :
        LET next == Reduce_addTime(State, tasks[i].id, s, Now) IN
        /\ Len(next.tasks) = Len(tasks)
        /\ next.tasks[i].id = tasks[i].id
        /\ next.tasks[i].timeAssignedSeconds
              = Seconds(tasks[i].timeAssignedSeconds) + s
        /\ next.tasks[i].remainingSeconds = RemainingOf(tasks[i]) + s
        /\ next.tasks[i].history = Append(tasks[i].history,
               [type |-> "add_time", amountSeconds |-> s])
        /\ next.score = score + (IF Seconds(tasks[i].timeAssignedSeconds) > 0
                                 THEN -1 ELSE 0)
        /\ next.stats = stats

\* C18 (as stated): addTime with s > 0 on a completed or struck task leaves
\* the task in_progress with completedAt cleared, wherever the task sits in
\* the queue; totalCompleted is not decremented.  (Extended reducer; the base
\* one never revives.)
C18_AddTimeRevival ==
    variant = "extended" =>
        \A i \in 1..Len(tasks), s \in AddTimeSeconds :
            IsTerminal(tasks[i]) =>
                LET next == reducer_addTime(State, tasks[i].id, s, Now) IN
                /\ next.tasks[i].id = tasks[i].id
                /\ next.tasks[i].status = "in_progress"
                /\ ~next.tasks[i].completedAt
                /\ next.stats.totalCompleted = stats.totalCompleted

\* C18 (amended): in the extended reducer, addTime with s > 0 on a completed
\* or struck task leaves the task non-terminal with completedAt cleared:
\* in_progress if it is the first non-terminal task of the resulting queue,
\* pending otherwise; totalCompleted is not decremented.
C18_AddTimeRevives ==
    variant = "extended" =>
        \A i \in 1..Len(tasks), s \in AddTimeSeconds :
            IsTerminal(tasks[i]) =>
                LET next == reducer_addTime(State, tasks[i].id, s, Now) IN
                /\ next.tasks[i].id = tasks[i].id
                /\ next.tasks[i].status =
                      (IF i = findNextActiveIndex(next.tasks)
                       THEN "in_progress" ELSE "pending")
                /\ ~next.tasks[i].completedAt
                /\ next.stats.totalCompleted = stats.totalCompleted

\* C18 witness: addTime revived the struck task of a one-task queue; its
\* completion stays counted.
C18_Witness ==
    /\ last.op = "addTime"
    /\ variant = "extended"
    /\ Len(tasks) = 1
    /\ tasks[1].id = last.id
    /\ Len(tasks[1].history) = 2
    /\ tasks[1].history[1].type = "auto_complete"
    /\ tasks[1].history[2].type = "add_time"
    /\ tasks[1].status = "in_progress"
    /\ ~tasks[1].completedAt
    /\ stats.totalCompleted = 1

\* the budgets an updateTask action may carry, 0 included
UpdateBudgets == {None} \cup (0..MaxSec)

\* C19: updateTask on an existing task with a new budget n > 0 sets
\* timeAssignedSeconds = n and remainingSeconds = max(0, previousRemaining +
\* (n - previousAssigned)), previousRemaining defaulting to previousAssigned
\* and previousAssigned to 0; the score changes by -1 if n > previousAssigned
\* and previousAssigned > 0, else by 0; with no budget (absent or 0) both time
\* fields become absent; history and stats are unchanged.
C19_UpdateTaskRecomputation ==
    \A i \in 1..Len(tasks), n \in UpdateBudgets :
        LET next == Reduce_updateTask(State, tasks[i].id, n, Now)
            previousAssigned == Seconds(tasks[i].timeAssignedSeconds)
            previousRemaining == IF tasks[i].remainingSeconds # None
                                 THEN tasks[i].remainingSeconds
                                 ELSE previousAssigned
        IN
        /\ Len(next.tasks) = Len(tasks)
        /\ next.tasks[i].id = tasks[i].id
        /\ n > 0 =>
              /\ next.tasks[i].timeAssignedSeconds = n
              /\ next.tasks[i].remainingSeconds
                    = Max(0, previousRemaining + (n - previousAssigned))
        /\ ~(n > 0) =>
              /\ next.tasks[i].timeAssignedSeconds = None
              /\ next.tasks[i].remainingSeconds = None
        /\ next.score = score + (IF n > previousAssigned /\ previousAssigned > 0
                                 THEN -1 ELSE 0)
        /\ next.tasks[i].history = tasks[i].history
        /\ next.stats = stats

\* position of the first occurrence of id in the list
FirstPos(l, id) == CHOOSE k \in 1..Len(l) : l[k] = id /\ \A m \in 1..(k - 1) : l[m] # id

\* position of the task id in the queue
IndexOf(ts, id) == CHOOSE k \in 1..Len(ts) : ts[k].id = id

\* C20: for every queue and every id list (unknown and repeated ids included)
\* the result of reorderTasks contains each original task exactly once; the
\* tasks named by known ids come first, in the order of their first occurrence
\* in the list, followed by the unnamed tasks in their original relative
\* order ([A,B,C] with [C,A] gives [C,A,B]); score, stats and every task's
\* remainingSeconds and history are unchanged.
C20_ReorderIsPermutation ==
    variant = "extended" =>
        \A l \in IdLists :
            LET next == reducer_reorderTasks(State, l, Now)
                after == next.tasks
                named == {l[k] : k \in 1..Len(l)} \cap TaskIds(tasks)
                k == Cardinality(named)
            IN
            /\ Len(after) = Len(tasks)
            /\ \A i \in 1..Len(tasks) :
                  Cardinality({j \in 1..Len(after) : after[j].id = tasks[i].id}) = 1
            /\ \A j \in 1..Len(after) : (j <= k) <=> (after[j].id \in named)
            /\ \A a, b \in 1..k :
                  a < b => FirstPos(l, after[a].id) < FirstPos(l, after[b].id)
            /\ \A a, b \in (k + 1)..Len(after) :
                  a < b => IndexOf(tasks, after[a].id) < IndexOf(tasks, after[b].id)
            /\ \A j \in 1..Len(after) :
                  LET old == tasks[IndexOf(tasks, after[j].id)] IN
                  /\ after[j].remainingSeconds = old.remainingSeconds
                  /\ after[j].history = old.history
            /\ (Len(tasks) = 3 /\ l = <<tasks[3].id, tasks[1].id>>) =>
                  [j \in 1..3 |-> after[j].id]
                      = <<tasks[3].id, tasks[1].id, tasks[2].id>>
            /\ next.score = score
            /\ next.stats = stats

\* C20 witness: the queue 1,2,3 was reordered to 3,1,2; the task moved to the
\* front is now the active one and the former active task waits.
C20_Witness ==
    /\ last.op = "reorderTasks"
    /\ Len(tasks) = 3
    /\ [j \in 1..3 |-> tasks[j].id] = <<3, 1, 2>>
    /\ tasks[1].status = "in_progress"
    /\ tasks[2].status = "pending"
    /\ tasks[2].remainingSeconds > 0

\* the tasks (by id) that are non-terminal before a step and terminal after it
Finished(before, after) ==
    {before[i].id : i \in {k \in 1..Len(before) :
        /\ ~IsTerminal(before[k])
        /\ \E j \in 1..Len(after) :
              after[j].id = before[k].id /\ IsTerminal(after[j])}}

\* C21: under every reducer action and every rehydration totalCompleted never
\* decreases; it increases by exactly 1 for each transition of a task into
\* completed or struck (manual completion, tick strike, catch-up strike) and
\* is unchanged by every other step.
C21_TotalCompletedCounts ==
    \A o \in Outcomes :
        /\ o.next.stats.totalCompleted >= stats.totalCompleted
        /\ o.next.stats.totalCompleted
              = stats.totalCompleted + Cardinality(Finished(tasks, o.next.tasks))
        /\ \A j \in 1..Len(o.next.tasks) :
              (o.next.tasks[j].id \notin TaskIds(tasks))
                  => ~IsTerminal(o.next.tasks[j])

\* C21 witness: one manual completion and one strike by tick, both counted.
C21_Witness ==
    /\ last.op = "tick"
    /\ Len(tasks) = 2
    /\ tasks[1].status = "completed"
    /\ tasks[2].status = "struck"
    /\ stats.totalCompleted = 2

\* the stats after k >= 1 completions dated d
TodayRule(st, d, k) ==
    [totalCompleted |-> st.totalCompleted + k,
     todayCompleted |-> IF st.lastCompletionDate = d
                        THEN st.todayCompleted + k ELSE k,
     lastCompletionDate |-> d]

\* C22: on every completion (manualComplete, tick strike, catch-up strike)
\* with completion date key d, todayCompleted becomes previous + 1 if d equals
\* the recorded lastCompletionDate and 1 otherwise, and lastCompletionDate
\* becomes d; the live reducer and the catch-up engine apply the same rule
\* (once per strike); todayCompleted >= 1 whenever lastCompletionDate is set.
C22_TodayCompletedRule ==
    /\ \A d \in Days :
          LET ticked == Reduce_tick(State, d)
              done == Reduce_manualComplete(State, d, Now)
          IN
          /\ ticked.stats =
                (IF Finished(tasks, ticked.tasks) = {} THEN stats
                 ELSE TodayRule(stats, d, 1))
          /\ done.stats =
                (IF Finished(tasks, done.tasks) = {} THEN stats
                 ELSE TodayRule(stats, d, 1))
          /\ \A deltaMs \in DeltasMs :
                LET loaded == loadState(deltaMs, d)
                    k == Cardinality(Finished(tasks, loaded.tasks))
                IN loaded.stats = (IF k = 0 THEN stats ELSE TodayRule(stats, d, k))
    /\ stats.lastCompletionDate # NoDate => stats.todayCompleted >= 1

\* C22 witness: a completion on another day than the recorded one reset the
\* counter of the day to 1 while the total went to 2.
C22_Witness ==
    /\ last.op = "manualComplete"
    /\ stats.totalCompleted = 2
    /\ stats.todayCompleted = 1
    /\ stats.lastCompletionDate = 2
    /\ Len(tasks) = 2
    /\ tasks[1].status = "struck"
    /\ tasks[2].status = "completed"

\* C23: in every state reachable from the empty state through the extended
\* reducer and rehydration, a task has completedAt set if and only if its
\* status is completed or struck.
C23_CompletedAtTracksTerminal ==
    variant = "extended" =>
        \A i \in 1..Len(tasks) : tasks[i].completedAt <=> IsTerminal(tasks[i])

\* C23 witness: updateTask gave a completed task a new budget; the task runs
\* again and its completedAt is cleared.
C23_Witness ==
    /\ last.op = "updateTask"
    /\ variant = "extended"
    /\ Len(tasks) = 1
    /\ tasks[1].id = last.id
    /\ Len(tasks[1].history) = 1
    /\ tasks[1].history[1].type = "manual_complete"
    /\ tasks[1].status = "in_progress"
    /\ ~tasks[1].completedAt

\* ------------------------------------------- the pure helpers on inputs
\* bounds of the inputs drawn for the helpers
MaxDuration == 7260   \* largest duration split, in seconds (2 h 1 min)
MaxPart == 61         \* largest hours / minutes component combined

\* a JavaScript number: finite with an integer value, or NaN / +-Infinity
Num(v) == [finite |-> TRUE, value |-> v]
NonFinite == [finite |-> FALSE, value |-> 0]

\* renderer/utils/time.ts; `!seconds` covers an absent argument, NaN and 0
splitSeconds(seconds) ==
    IF seconds = None \/ seconds = 0 THEN [hours |-> 0, minutes |-> 0]
    ELSE LET clamped == Max(0, seconds) IN
         [hours |-> clamped \div 3600, minutes |-> (clamped % 3600) \div 60]

\* mutant: negative components are not clamped one by one
combineToSeconds_signed(hours, minutes) ==
    LET safeHours == IF hours.finite THEN hours.value ELSE 0
        safeMinutes == IF minutes.finite THEN minutes.value ELSE 0
        totalMinutes == safeHours * 60 + safeMinutes
    IN Max(0, totalMinutes * 60)

combineToSeconds(hours, minutes) ==
    LET safeHours == IF hours.finite THEN Max(0, hours.value) ELSE 0
        safeMinutes == IF minutes.finite THEN Max(0, minutes.value) ELSE 0
        totalMinutes == safeHours * 60 + safeMinutes
    IN Max(0, totalMinutes * 60)

\* the inputs
Durations == {None} \cup (0..MaxDuration)
Components == {Num(v) : v \in (-1)..MaxPart} \cup {NonFinite}

TaskStatuses == {"pending", "in_progress", "completed", "struck"}
OptionalSeconds == {None} \cup (0..MaxSec)
Histories == {<<>>, <<[type |-> "add_time", amountSeconds |-> 1]>>}

\* a task as a persisted document may hold it: status and history may be
\* missing, the two budgets may be absent
RawTasksWithId(id) ==
    LET core == [id : {id}, timeAssignedSeconds : OptionalSeconds,
                 remainingSeconds : OptionalSeconds,
                 completedAt : {FALSE}, isPaused : {FALSE}]
    IN core
       \cup {c @@ [status |-> st] : c \in core, st \in TaskStatuses}
       \cup {c @@ [history |-> h] : c \in core, h \in Histories}
       \cup {c @@ [status |-> st, history |-> h] :
                c \in core, st \in TaskStatuses, h \in Histories}

RawTaskLists ==
    {<<>>} \cup {<<a>> : a \in RawTasksWithId(1)}
           \cup {<<a, b>> : a \in RawTasksWithId(1), b \in RawTasksWithId(2)}

CalcOnly == UNCHANGED <<variant, tasks, score, stats, meta, nextId, steps, last,
                        store, ticker, disk, ui>>

SplitSeconds ==
    /\ calc.fn = "none"
    /\ \E seconds \in Durations :
          LET parts == splitSeconds(seconds) IN
          calc' = [fn |-> "splitSeconds", arg |-> seconds, parts |-> parts,
                   back |-> combineToSeconds(Num(parts.hours), Num(parts.minutes))]
    /\ CalcOnly

CombineToSeconds ==
    /\ calc.fn = "none"
    /\ \E hours \in Components, minutes \in Components :
          calc' = [fn |-> "combineToSeconds", hours |-> hours, minutes |-> minutes,
                   result |-> combineToSeconds(hours, minutes)]
    /\ CalcOnly

EnsureTaskDefaults ==
    /\ calc.fn = "none"
    /\ \E task \in RawTasksWithId(1) :
          calc' = [fn |-> "ensureTaskDefaults", arg |-> task,
                   once |-> ensureTaskDefaults(task),
                   twice |-> ensureTaskDefaults(ensureTaskDefaults(task))]
    /\ CalcOnly

EnsureAlignedTasks ==
    /\ calc.fn = "none"
    /\ \E ts \in RawTaskLists :
          calc' = [fn |-> "ensureAlignedTasks", arg |-> ts,
                   once |-> ensureAlignedTasks(ts),
                   twice |-> ensureAlignedTasks(ensureAlignedTasks(ts))]
    /\ CalcOnly

InitCalc == Init /\ variant = "extended"

NextCalc ==
    \/ SplitSeconds
    \/ CombineToSeconds
    \/ EnsureTaskDefaults
    \/ EnsureAlignedTasks

SpecCalc == InitCalc /\ [][NextCalc]_vars

\* C29: normalization and realignment are idempotent: for every task, with
\* any of status, remainingSeconds, timeAssignedSeconds and history absent,
\* ensureTaskDefaults applied twice gives what it gives applied once, and for
\* every task list ensureAlignedTasks applied twice gives what it gives once.
C29_Idempotent ==
    (calc.fn = "ensureTaskDefaults" \/ calc.fn = "ensureAlignedTasks")
        => calc.twice = calc.once

\* a list of two tasks without status and history, the first with a time
\* budget but nothing left recorded: the normalization changed both
C29_Witness ==
    /\ calc.fn = "ensureAlignedTasks"
    /\ Len(calc.arg) = 2
    /\ \A i \in 1..2 : DOMAIN calc.arg[i] \cap {"status", "history"} = {}
    /\ calc.arg[1].timeAssignedSeconds = MaxSec
    /\ calc.arg[1].remainingSeconds = None
    /\ calc.once[1].status = "in_progress"
    /\ calc.once[1].remainingSeconds = MaxSec
    /\ calc.once[2].status = "pending"
    /\ calc.once[2].history = <<>>
    /\ calc.twice = calc.once

\* C30 as stated: combining the parts of any non-negative duration gives the
\* duration back.
C30_RoundTrip ==
    (calc.fn = "splitSeconds" /\ calc.arg # None) => calc.back = calc.arg

ComponentValue(x) == IF x.finite /\ x.value >= 0 THEN x.value ELSE 0

\* C30: combining the parts of a duration gives the duration rounded down to
\* a whole minute, hence the duration itself when it is a whole number of
\* minutes; combining h hours and m minutes gives (h*60 + m)*60 (1 h 30 min
\* gives 5400), a negative or non-finite component counting as 0.
C30_CombineInvertsSplit ==
    /\ (calc.fn = "splitSeconds" /\ calc.arg # None) =>
          /\ calc.back = calc.arg - (calc.arg % 60)
          /\ (calc.arg % 60 = 0 => calc.back = calc.arg)
    /\ calc.fn = "combineToSeconds" =>
          /\ calc.result =
                (ComponentValue(calc.hours) * 60 + ComponentValue(calc.minutes)) * 60
          /\ (calc.hours = Num(1) /\ calc.minutes = Num(30) => calc.result = 5400)

\* 1 h 30 min split and combined again
C30_Witness ==
    /\ calc.fn = "splitSeconds"
    /\ calc.arg = 5400
    /\ calc.parts = [hours |-> 1, minutes |-> 30]
    /\ calc.back = 5400

\* --------------------------------------------------- the renderer store
\* useAppStore (state.ts:808-1090).  One action of the model is one dispatch
\* with the render it causes and the effects of that render, run in the order
\* of their declaration; a dispatch for which the reducer returns the state
\* object it was given causes no render (useReducer) and so no effect.
MaxStoreSteps == 6    \* store events in a run
MaxStoreTasks == 2    \* tasks ever created in a run of the store
MaxTickCalls == 5     \* timestamps passed to dispatchTick in a run

shouldPersist(type) == type \notin {"tick", "hydrate", "syncMeta"}

\* case 'syncMeta'
reducer_syncMeta(state, lastSavedAt) ==
    [state EXCEPT !.meta = [state.meta EXCEPT !.lastSavedAt = lastSavedAt]]

\* the actions a user's gesture dispatches through dispatchWithPersist
StoreActions(state, id) ==
    {[type |-> "addTask", taskId |-> id, seconds |-> sec, orderedTaskIds |-> <<>>] :
        sec \in IF id <= MaxStoreTasks THEN {None, 1} ELSE {}}
    \cup {[type |-> "manualComplete", taskId |-> NoArg, seconds |-> NoArg,
           orderedTaskIds |-> <<>>]}
    \cup {[type |-> "deleteTask", taskId |-> state.tasks[i].id, seconds |-> NoArg,
           orderedTaskIds |-> <<>>] : i \in 1..Len(state.tasks)}
    \cup {[type |-> "reorderTasks", taskId |-> NoArg, seconds |-> NoArg,
           orderedTaskIds |-> ids] :
             ids \in {<<>>, [i \in 1..Len(state.tasks) |->
                               state.tasks[Len(state.tasks) + 1 - i].id]}}

reducer(state, action, dateKey, now) ==
    CASE action.type = "addTask" ->
            reducer_addTask(state, action.taskId, action.seconds, now)
      [] action.type = "manualComplete" -> Reduce_manualComplete(state, dateKey, now)
      [] action.type = "deleteTask" -> reducer_deleteTask(state, action.taskId, now)
      [] action.type = "reorderTasks" ->
            reducer_reorderTasks(state, action.orderedTaskIds, now)
      [] action.type = "tick" -> Reduce_tick(state, dateKey)
      [] OTHER -> state

\* the reducer's `return state`: the same object, no render
returnsSameState(state, action) ==
    \/ action.type \in {"tick", "manualComplete"} /\ findActiveTaskIndex(state.tasks) = 0
    \/ action.type = "reorderTasks" /\ action.orderedTaskIds = <<>>

queuePersist(st) ==
    [st EXCEPT !.pendingPersist = TRUE, !.queuedSinceSave = TRUE,
               !.savesSinceQueue = 0]

\* mutant: the save is scheduled whether hydrated or not
persistEffect_unhydrated(st) ==
    LET cleared == IF st.debounceLive
                   THEN [st EXCEPT !.timers = @ - 1, !.debounceLive = FALSE]
                   ELSE st
    IN IF ~cleared.pendingPersist \/ ~cleared.api THEN cleared
       ELSE [cleared EXCEPT !.timers = @ + 1, !.debounceLive = TRUE]

\* mutant: the pending timeout is not cleared before another is set
persistEffect_noClear(st) ==
    IF ~st.hydrated \/ ~st.pendingPersist \/ ~st.api THEN st
    ELSE [st EXCEPT !.timers = @ + 1, !.debounceLive = TRUE]

\* the persist effect (deps: state, hydrated): the cleanup of its previous run
\* clears the pending timeout, then it sets one when a save is pending
persistEffect(st) ==
    LET cleared == IF st.debounceLive
                   THEN [st EXCEPT !.timers = @ - 1, !.debounceLive = FALSE]
                   ELSE st
    IN IF ~cleared.hydrated \/ ~cleared.pendingPersist \/ ~cleared.api THEN cleared
       ELSE [cleared EXCEPT !.timers = @ + 1, !.debounceLive = TRUE]

\* the stats effect (deps: the two counters)
statsEffect(st, state) ==
    LET totals == [totalCompleted |-> state.stats.totalCompleted,
                   todayCompleted |-> state.stats.todayCompleted]
        queued == IF st.lastAction = "tick" /\ totals # st.prevTotals
                  THEN queuePersist(st) ELSE st
    IN [queued EXCEPT !.prevTotals = totals]

\* the effects after a render with a new state: stateRef, persist, stats
runEffects(st, state) ==
    statsEffect(persistEffect([st EXCEPT !.stateRef = state]), state)

\* the effect on `hydrated` that gives dispatchTick its reference
tickReference(tk, hydrated, nowMs) ==
    IF hydrated /\ tk.lastTickTimestamp = None
    THEN [tk EXCEPT !.lastTickTimestamp = nowMs, !.tickCarryover = 0,
                    !.reference = nowMs, !.largest = nowMs]
    ELSE tk

dispatchWithPersist(st, state, action, dateKey, now) ==
    LET next == reducer(state, action, dateKey, now)
        same == returnsSameState(state, action)
        named == [st EXCEPT !.lastAction = action.type]
        queued == IF shouldPersist(action.type)
                  THEN [queuePersist(named) EXCEPT
                           !.actionSinceSave = TRUE,
                           !.changedSinceSave = @ \/ ~same]
                  ELSE named
    IN [store |-> IF same THEN queued ELSE runEffects(queued, next),
        state |-> next]

\* mutant: the remainder below a second is not carried over
dispatchTick_dropRemainder(st, tk, state, timestamp, dateKey) ==
    IF tk.lastTickTimestamp = None
    THEN [store |-> st, state |-> state,
          ticker |-> [tk EXCEPT !.lastTickTimestamp = timestamp,
                                !.tickCarryover = 0, !.reference = timestamp,
                                !.largest = timestamp]]
    ELSE
      LET deltaMs == timestamp - tk.lastTickTimestamp
          elapsedSeconds == deltaMs \div MsPerSecond
          count == Max(0, elapsedSeconds)
          next == TickN(state, count, dateKey)
          same == count = 0 \/ findActiveTaskIndex(state.tasks) = 0
          named == IF count > 0 THEN [st EXCEPT !.lastAction = "tick"] ELSE st
          struck == next.stats.totalCompleted # state.stats.totalCompleted
          after == IF same THEN named ELSE runEffects(named, next)
      IN [store |-> [after EXCEPT !.unsavedStrike = @ \/ struck],
          state |-> next,
          ticker |-> [tk EXCEPT !.lastTickTimestamp = timestamp,
                                !.tickCarryover = 0,
                                !.dispatched = @ + count,
                                !.largest = Max(@, timestamp),
                                !.monotone = @ /\ timestamp >= tk.lastTickTimestamp]]

\* dispatchTick(timestamp): the first call only sets the reference; later
\* calls dispatch one tick per whole second since the previous call, the
\* remainder carried over.  The ticks of one call are reduced one after the
\* other and rendered once.
dispatchTick(st, tk, state, timestamp, dateKey) ==
    IF tk.lastTickTimestamp = None
    THEN [store |-> st, state |-> state,
          ticker |-> [tk EXCEPT !.lastTickTimestamp = timestamp,
                                !.tickCarryover = 0, !.reference = timestamp,
                                !.largest = timestamp]]
    ELSE
      LET deltaMs == timestamp - tk.lastTickTimestamp + tk.tickCarryover
          elapsedSeconds == deltaMs \div MsPerSecond
          count == Max(0, elapsedSeconds)
          next == TickN(state, count, dateKey)
          same == count = 0 \/ findActiveTaskIndex(state.tasks) = 0
          named == IF count > 0 THEN [st EXCEPT !.lastAction = "tick"] ELSE st
          struck == next.stats.totalCompleted # state.stats.totalCompleted
          after == IF same THEN named ELSE runEffects(named, next)
      IN [store |-> [after EXCEPT !.unsavedStrike = @ \/ struck],
          state |-> next,
          ticker |-> [tk EXCEPT !.lastTickTimestamp = timestamp,
                                !.tickCarryover = deltaMs - elapsedSeconds * MsPerSecond,
                                !.dispatched = @ + count,
                                !.largest = Max(@, timestamp),
                                !.monotone = @ /\ timestamp >= tk.lastTickTimestamp]]

\* api.loadState() resolved: dispatch hydrate, setHydrated(true)
loadResolved(st, state, payload) ==
    LET next == reducer_hydrate(state, payload)
    IN [store |-> runEffects([st EXCEPT !.hydrated = TRUE, !.loading = FALSE], next),
        state |-> next]

\* api.loadState() rejected: setHydrated(true) alone
loadRejected(st, state) ==
    [store |-> persistEffect([st EXCEPT !.hydrated = TRUE, !.loading = FALSE]),
     state |-> state]

\* the debounce timeout fires: the timeouts last 200 ms each, so the oldest
\* pending one fires; it takes stateRef.current and calls api.saveState
debounceFired(st) ==
    [st EXCEPT !.timers = @ - 1,
               !.debounceLive = @ /\ st.timers > 1,
               !.pendingPersist = FALSE,
               !.inFlight = Append(@, st.stateRef),
               !.queuedSinceSave = FALSE,
               !.actionSinceSave = FALSE,
               !.changedSinceSave = FALSE,
               !.unsavedStrike = FALSE,
               !.rejected = FALSE,
               !.savesSinceQueue = @ + 1]

RemoveAt(seq, i) == SubSeq(seq, 1, i - 1) \o SubSeq(seq, i + 1, Len(seq))

\* mutant: syncMeta goes through dispatchWithPersist and queues a save
saveResolved_requeue(st, state, i, lastSavedAt) ==
    LET next == reducer_syncMeta(state, lastSavedAt)
    IN [store |-> runEffects(queuePersist([st EXCEPT !.inFlight = RemoveAt(@, i)]),
                             next),
        state |-> next]

\* api.saveState(snapshot) resolved: dispatch syncMeta with the saved meta
saveResolved(st, state, i, lastSavedAt) ==
    LET next == reducer_syncMeta(state, lastSavedAt)
    IN [store |-> runEffects([st EXCEPT !.inFlight = RemoveAt(@, i)], next),
        state |-> next]

\* mutant: a rejected save is scheduled again
saveRejected_retry(st, state, i) ==
    [store |-> persistEffect([st EXCEPT !.inFlight = RemoveAt(@, i),
                                        !.rejected = TRUE,
                                        !.pendingPersist = TRUE]),
     state |-> state]

\* api.saveState(snapshot) rejected: console.error
saveRejected(st, state, i) ==
    [store |-> [st EXCEPT !.inFlight = RemoveAt(@, i), !.rejected = TRUE],
     state |-> state]

\* the documents the main process may hand over at launch
StoreDocuments ==
    {createEmptyState(0), reducer_addTask(createEmptyState(0), 1, 1, 0)}

ApplyStore(next, tk, op, bound) ==
    /\ steps < bound
    /\ steps' = steps + 1
    /\ tasks' = next.state.tasks
    /\ score' = next.state.score
    /\ stats' = next.state.stats
    /\ meta' = next.state.meta
    /\ store' = next.store
    /\ ticker' = tk
    /\ last' = [op |-> op, id |-> NoArg, n |-> NoArg, iterations |-> 0]
    /\ UNCHANGED <<variant, disk, calc, ui>>

\* the first render and its effects: the load is requested when there is a
\* persistence API, otherwise the store is hydrated at once
InitStore ==
    /\ InitState
    /\ variant = "extended"
    /\ disk = DiskIdle
    /\ calc = CalcIdle
    /\ ui = UiIdle
    /\ store \in {[StoreIdle EXCEPT !.api = TRUE, !.loading = TRUE],
                  [StoreIdle EXCEPT !.hydrated = TRUE]}
    /\ ticker = tickReference(TickerIdle, store.hydrated, 0)

LoadResolve ==
    /\ store.loading
    /\ \E doc \in StoreDocuments, todayKey \in Days :
          LET payload == rehydrateState(doc, 0, todayKey, Now)
              next == loadResolved(store, State, payload)
          IN /\ ApplyStore(next, tickReference(ticker, TRUE, 0), "hydrate",
                           MaxStoreSteps)
             /\ nextId' = Len(next.state.tasks) + 1

LoadReject ==
    /\ store.loading
    /\ ApplyStore(loadRejected(store, State), tickReference(ticker, TRUE, 0),
                  "loadReject", MaxStoreSteps)
    /\ UNCHANGED nextId

\* a gesture of the user; the interface is rendered once hydrated (App.tsx:958)
UserAction ==
    /\ store.hydrated
    /\ \E action \in StoreActions(State, nextId), dateKey \in Days :
          /\ ApplyStore(dispatchWithPersist(store, State, action, dateKey, Now),
                        ticker, action.type, MaxStoreSteps)
          /\ nextId' = IF action.type = "addTask" THEN nextId + 1 ELSE nextId

\* the timer of the main process, one timestamp a second (onTimerTick)
TimerTick ==
    /\ store.hydrated
    /\ ticker.lastTickTimestamp # None
    /\ \E dateKey \in Days :
          LET next == dispatchTick(store, ticker, State,
                                   ticker.lastTickTimestamp + MsPerSecond, dateKey)
          IN ApplyStore(next, next.ticker, "tick", MaxStoreSteps)
    /\ UNCHANGED nextId

DebounceFire ==
    /\ store.timers > 0
    /\ ApplyStore([store |-> debounceFired(store), state |-> State], ticker,
                  "saveState", MaxStoreSteps)
    /\ UNCHANGED nextId

SaveResolve ==
    /\ \E i \in 1..Len(store.inFlight) :
          ApplyStore(saveResolved(store, State, i, Now), ticker, "syncMeta",
                     MaxStoreSteps)
    /\ UNCHANGED nextId

SaveReject ==
    /\ \E i \in 1..Len(store.inFlight) :
          ApplyStore(saveRejected(store, State, i), ticker, "saveReject",
                     MaxStoreSteps)
    /\ UNCHANGED nextId

NextStore ==
    \/ LoadResolve
    \/ LoadReject
    \/ UserAction
    \/ TimerTick
    \/ DebounceFire
    \/ SaveResolve
    \/ SaveReject

SpecStore == InitStore /\ [][NextStore]_vars

\* ---------------------------------------- timer timestamps to tick actions
\* the first timestamp, and the gaps between one timestamp and the next, in
\* milliseconds (a negative gap: a timestamp older than the previous one)
TickStartsMs == {0, 300}
TickGapsMs == {-500, -1, 0, 1, 400, 999, 1000, 1001, 1600, 2500}

\* a store hydrated without persistence API, its queue empty
InitTick ==
    /\ InitState
    /\ variant = "extended"
    /\ disk = DiskIdle
    /\ calc = CalcIdle
    /\ ui = UiIdle
    /\ store = [StoreIdle EXCEPT !.hydrated = TRUE]
    /\ ticker = TickerIdle

\* the effect on `hydrated` reads Date.now()
TickReference ==
    /\ ticker.lastTickTimestamp = None
    /\ \E nowMs \in TickStartsMs :
          ApplyStore([store |-> store, state |-> State],
                     tickReference(ticker, store.hydrated, nowMs),
                     "tickReference", MaxTickCalls)
    /\ UNCHANGED nextId

DispatchTick ==
    /\ \E timestamp \in IF ticker.lastTickTimestamp = None THEN TickStartsMs
                        ELSE {ticker.lastTickTimestamp + gap : gap \in TickGapsMs},
          dateKey \in Days :
          /\ timestamp >= 0
          /\ LET next == dispatchTick(store, ticker, State, timestamp, dateKey)
             IN ApplyStore(next, next.ticker, "tick", MaxTickCalls)
    /\ UNCHANGED nextId

NextTick ==
    \/ TickReference
    \/ DispatchTick

SpecTick == InitTick /\ [][NextTick]_vars

C25_StrikePersisted ==
    (store.hydrated /\ store.api /\ store.unsavedStrike) =>
        /\ store.pendingPersist
        /\ \/ store.timers > 0
           \/ store.inFlight # <<>>
           \/ findActiveTaskIndex(tasks) # 0

C26_DriftFree ==
    /\ ticker.tickCarryover \in 0..(MsPerSecond - 1)
    /\ (ticker.reference # None /\ ticker.monotone) =>
          /\ ticker.dispatched =
                (ticker.lastTickTimestamp - ticker.reference) \div MsPerSecond
          /\ ticker.lastTickTimestamp - ticker.reference =
                ticker.dispatched * MsPerSecond + ticker.tickCarryover

\* three calls 400, 1600 and 1 ms apart: two ticks, 1 ms carried over
C26_Witness ==
    /\ ticker.reference # None
    /\ ticker.monotone
    /\ steps = 4
    /\ ticker.lastTickTimestamp - ticker.reference = 2001
    /\ ticker.dispatched = 2
    /\ ticker.tickCarryover = 1

\* ------------------------------------------- the persisted document
\* The state manager of the main process.  A document is a number: every
\* loadState and saveState stamps a new lastSavedAt, so every save writes a
\* document never written before.  fs.move with overwrite is taken as the
\* rename of the temp file over the primary, in one step; fs.writeFile and
\* fs.copy fill their target little by little, so a process that stops in
\* the middle leaves it torn.
MaxDocs == 4          \* documents written in a run

statePath == "primary"
backupPath == "backup"

\* mutant: the payload is written straight to state.json
tempPath_inPlace == "primary"

tempPath == "temp"

\* JSON.parse of fs.readFile: throws for a missing or torn file
parses(content) == content # Absent /\ content # Torn

\* the document, or Absent for null
readStateFile(d) ==
    IF parses(d.files[statePath]) THEN d.files[statePath]
    ELSE IF parses(d.files[backupPath]) THEN d.files[backupPath]
    ELSE Absent

\* writeAtomic, step by step
writeFileStarted(d, payload) ==
    [d EXCEPT !.files[tempPath] = Torn, !.saving = payload,
              !.before = readStateFile(d), !.pc = "writing"]

writeFileDone(d) ==
    [d EXCEPT !.files[tempPath] = d.saving, !.pc = "written"]

moved(d) ==
    [d EXCEPT !.files = IF tempPath = statePath THEN d.files
                        ELSE [d.files EXCEPT ![statePath] = d.files[tempPath],
                                             ![tempPath] = Absent],
              !.pc = "moved"]

copyStarted(d) == [d EXCEPT !.files[backupPath] = Torn, !.pc = "copying"]

copyDone(d) ==
    [d EXCEPT !.files[backupPath] = d.files[statePath], !.pc = "idle"]

DiskOnly == UNCHANGED <<variant, tasks, score, stats, meta, nextId, steps, last,
                        store, ticker, calc, ui>>

\* the application starts: loadState reads the document, rehydrates it (or
\* makes an empty state) and starts writing the result
LoadState ==
    /\ disk.pc = "stopped"
    /\ disk.docs < MaxDocs
    /\ disk' = [writeFileStarted(disk, disk.docs + 1) EXCEPT !.docs = @ + 1]
    /\ DiskOnly

\* saveState from the renderer, the previous write finished
SaveState ==
    /\ disk.pc = "idle"
    /\ disk.docs < MaxDocs
    /\ disk' = [writeFileStarted(disk, disk.docs + 1) EXCEPT !.docs = @ + 1]
    /\ DiskOnly

WriteFileDone ==
    /\ disk.pc = "writing"
    /\ disk' = writeFileDone(disk)
    /\ DiskOnly

Move ==
    /\ disk.pc = "written"
    /\ disk' = moved(disk)
    /\ DiskOnly

CopyStart ==
    /\ disk.pc = "moved"
    /\ disk' = copyStarted(disk)
    /\ DiskOnly

CopyDone ==
    /\ disk.pc = "copying"
    /\ disk' = copyDone(disk)
    /\ DiskOnly

\* the process stops, wherever the write is
Stop ==
    /\ disk.pc # "stopped"
    /\ disk' = [disk EXCEPT !.pc = "stopped"]
    /\ DiskOnly

InitDisk ==
    /\ InitState
    /\ variant = "extended"
    /\ store = StoreIdle
    /\ ticker = TickerIdle
    /\ calc = CalcIdle
    /\ ui = UiIdle
    /\ disk = DiskIdle

NextDisk ==
    \/ LoadState
    \/ SaveState
    \/ WriteFileDone
    \/ Move
    \/ CopyStart
    \/ CopyDone
    \/ Stop

SpecDisk == InitDisk /\ [][NextDisk]_vars

\* C28: if a document had been persisted when a save started, then at every
\* step of the save, and after the process stopped at any of them, a load
\* returns a whole document: the one persisted before or the one being saved.
C28_AtomicReplace ==
    disk.before # Absent =>
        /\ parses(readStateFile(disk))
        /\ readStateFile(disk) \in {disk.before, disk.saving}

\* the process stopped while the backup of a later document was being
\* copied: the backup is torn, the load gives the new document
C28_Witness ==
    /\ disk.pc = "stopped"
    /\ disk.before # Absent
    /\ disk.files[backupPath] = Torn
    /\ disk.saving # disk.before
    /\ readStateFile(disk) = disk.saving

\* C32: pause survives a restart: whatever the time the application was
\* closed, rehydration leaves a paused active task open, with the time it
\* had left.
C32_PauseSurvivesRestart ==
    \A deltaMs \in DeltasMs, todayKey \in Days :
        LET i == findActiveTaskIndex(tasks) IN
        (i # 0 /\ tasks[i].isPaused) =>
            LET after == loadState(deltaMs, todayKey).tasks IN
            /\ ~IsTerminal(after[i])
            /\ RemainingOf(after[i]) = RemainingOf(tasks[i])

\* C35: an exhausted timer is always terminal: a task that is not
\* completed or struck and has a positive time budget has time left.
C35_ExhaustedIsTerminal ==
    \A i \in 1..Len(tasks) :
        (~IsTerminal(tasks[i]) /\ tasks[i].timeAssignedSeconds # None
            /\ tasks[i].timeAssignedSeconds > 0) =>
        (tasks[i].remainingSeconds # None /\ tasks[i].remainingSeconds > 0)

\* C39: remaining time is bounded by the budget: every task with a time
\* budget has its remaining time recorded, between 0 and the budget.
C39_RemainingWithinBudget ==
    \A i \in 1..Len(tasks) :
        tasks[i].timeAssignedSeconds # None =>
            /\ tasks[i].remainingSeconds # None
            /\ 0 <= tasks[i].remainingSeconds
            /\ tasks[i].remainingSeconds <= tasks[i].timeAssignedSeconds

\* time was added to a task part of whose budget had been counted down
C39_Witness ==
    /\ last.op = "addTime"
    /\ \E i \in 1..Len(tasks) :
          /\ tasks[i].id = last.id
          /\ tasks[i].timeAssignedSeconds # None
          /\ 0 < tasks[i].remainingSeconds
          /\ tasks[i].remainingSeconds < tasks[i].timeAssignedSeconds

NoPause(ts) == \A i \in 1..Len(ts) : ~ts[i].isPaused

\* C33: with ticks alone and no task paused the countdown ends: after as
\* many ticks as the timed tasks ahead of the first untimed open task have
\* seconds left, the active task (if any) has no time left, exactly those
\* tasks were struck, one after the other in queue order, and one more tick
\* leaves the state as it is; one tick earlier the countdown was not over.
C33_CountdownEnds ==
    NoPause(tasks) =>
        \A dateKey \in Days :
            LET run == TimedRun(tasks)
                total == CumRemaining(tasks, run, Len(run))
                end == TickN(State, total, dateKey)
                active == findActiveTaskIndex(end.tasks)
            IN
            /\ active # 0 => RemainingOf(end.tasks[active]) <= 0
            /\ NewlyStruck(tasks, end.tasks) = {run[j] : j \in 1..Len(run)}
            /\ \A n \in 0..total :
                  NewlyStruck(tasks, TickN(State, n, dateKey).tasks) =
                      {run[j] : j \in 1..CoveredCount(tasks, run, n)}
            /\ Reduce_tick(end, dateKey) = end
            /\ total > 0 =>
                  LET before == TickN(State, total - 1, dateKey) IN
                  /\ findActiveTaskIndex(before.tasks) = run[Len(run)]
                  /\ RemainingOf(before.tasks[run[Len(run)]]) = 1

\* two timed tasks are queued ahead of an untimed one, nothing is paused
C33_Witness ==
    /\ NoPause(tasks)
    /\ Len(tasks) = 3
    /\ TimedRun(tasks) = <<1, 2>>
    /\ ~IsTerminal(tasks[3])
    /\ RemainingOf(tasks[3]) = 0
    /\ RemainingOf(tasks[1]) + RemainingOf(tasks[2]) >= 3

\* C34: no save before hydration: while the load is in flight no timeout is
\* pending and no saveState call is out, and an action dispatched to the
\* store at that moment sets none either; once such a store is hydrated, the
\* state a save would take is the hydrated one.
C34_NoSaveBeforeHydration ==
    /\ ~store.hydrated => (store.timers = 0 /\ store.inFlight = <<>>)
    /\ store.loading =>
          \A action \in StoreActions(State, nextId), dateKey \in Days :
              LET r == dispatchWithPersist(store, State, action, dateKey, Now) IN
              /\ r.store.timers = 0
              /\ r.store.inFlight = <<>>
              /\ \A doc \in StoreDocuments :
                    LET h == loadResolved(r.store, r.state,
                                          rehydrateState(doc, 0, dateKey, Now))
                    IN /\ h.store.stateRef = h.state
                       /\ h.state.tasks = rehydrateState(doc, 0, dateKey, Now).tasks

\* the first save of a run: it follows the hydration and carries the task
\* of the loaded document besides the one just added
C34_Witness ==
    /\ last.op = "saveState"
    /\ steps = 3
    /\ store.hydrated
    /\ ~store.loading
    /\ Len(store.inFlight) = 1
    /\ Len(store.inFlight[1].tasks) = 2
    /\ store.inFlight[1].tasks[1].timeAssignedSeconds = 1

\* C40: saving does not feed back into saving: the syncMeta of a settled
\* save queues nothing and, when nothing is pending, sets no timeout; every
\* queued event is followed by at most one saveState call; and at most one
\* timeout is pending at any time.
C40_NoSaveFeedback ==
    /\ store.timers <= 1
    /\ store.savesSinceQueue <= 1
    /\ ~store.queuedSinceSave => (store.timers = 0 /\ ~store.pendingPersist)
    /\ \A i \in 1..Len(store.inFlight) :
          LET r == saveResolved(store, State, i, Now) IN
          /\ r.store.pendingPersist = store.pendingPersist
          /\ r.store.queuedSinceSave = store.queuedSinceSave
          /\ r.store.timers = (IF store.pendingPersist THEN 1 ELSE 0)
          /\ r.store.timers <= 1

\* a save settled and its syncMeta was applied: nothing is pending, nothing
\* is scheduled, nothing is in flight
C40_Witness ==
    /\ last.op = "syncMeta"
    /\ meta.lastSavedAt = steps
    /\ store.timers = 0
    /\ ~store.pendingPersist
    /\ store.inFlight = <<>>
    /\ Len(tasks) > 0

\* C37: out-of-order timestamps never gain seconds: whatever the order of
\* the timestamps, the tick actions dispatched since the first one never
\* exceed the whole seconds between it and the largest timestamp seen.
C37_NoSecondGained ==
    ticker.reference # None =>
        ticker.dispatched * MsPerSecond <= ticker.largest - ticker.reference

\* ------------------------------------------- saves in flight together
\* Several saveState calls of the main process, their awaits interleaved.
\* All of them use the same three paths.  A call's payload is its place in
\* the order of issue plus one (document 1 is the one loadState wrote at
\* startup).  fs.writeFile opens the temp file, which empties it, and writes
\* through the descriptor: the bytes go to the file it opened, whatever name
\* that file has by then.  fs.move of a missing temp file rejects.
MaxCalls == 2         \* saveState calls in a run

SavesIdle ==
    [files |-> [temp |-> Absent, primary |-> 1, backup |-> 1],
     calls |-> <<>>, overlap |-> FALSE]

settled(call) == call.pc \in {"done", "failed"}

\* saveState up to its first await: the call is issued
saveStateIssued(d) ==
    [d EXCEPT !.calls = Append(@, [payload |-> Len(@) + 2, pc |-> "ensure",
                                   target |-> tempPath, shared |-> FALSE]),
              !.overlap = @ \/ \E j \in 1..Len(d.calls) : ~settled(d.calls[j])]

\* another call has the temp file open for writing
writingTemp(d, i) ==
    \E j \in 1..Len(d.calls) :
        j # i /\ d.calls[j].pc = "writing" /\ d.calls[j].target = tempPath

\* ensureDirectories is over, fs.writeFile opens the temp file
writeFileOpened(d, i) ==
    [d EXCEPT !.files[tempPath] = Torn,
              !.calls = [j \in 1..Len(d.calls) |->
                  IF j = i
                  THEN [d.calls[j] EXCEPT !.pc = "writing", !.target = tempPath,
                                          !.shared = writingTemp(d, i)]
                  ELSE IF d.calls[j].pc = "writing" /\ d.calls[j].target = tempPath
                  THEN [d.calls[j] EXCEPT !.shared = TRUE]
                  ELSE d.calls[j]]]

\* fs.writeFile is over: content is what the file holds afterwards
writeFileClosed(d, i, content) ==
    [d EXCEPT !.files = IF d.calls[i].target = "unlinked" THEN @
                        ELSE [@ EXCEPT ![d.calls[i].target] = content],
              !.calls[i].pc = "written"]

\* what two writers of one file can leave in it
WrittenContents(call) ==
    IF call.shared THEN {call.payload, Torn} ELSE {call.payload}

\* fs.move(tempPath, statePath, { overwrite: true })
moveTemp(d, i) ==
    IF d.files[tempPath] = Absent
    THEN [d EXCEPT !.calls[i].pc = "failed"]
    ELSE [d EXCEPT !.files = [@ EXCEPT ![statePath] = d.files[tempPath],
                                       ![tempPath] = Absent],
                   !.calls = [j \in 1..Len(d.calls) |->
                       IF j = i THEN [d.calls[j] EXCEPT !.pc = "moved"]
                       ELSE IF d.calls[j].pc = "writing"
                       THEN [d.calls[j] EXCEPT !.target =
                                IF @ = tempPath THEN statePath ELSE "unlinked"]
                       ELSE d.calls[j]]]

\* fs.copy(statePath, backupPath, { overwrite: true })
copyBegun(d, i) ==
    [d EXCEPT !.files[backupPath] = Torn, !.calls[i].pc = "copying"]

copyEnded(d, i) ==
    [d EXCEPT !.files[backupPath] = d.files[statePath], !.calls[i].pc = "done"]

SaveStateCall ==
    /\ Len(disk.calls) < MaxCalls
    /\ disk' = saveStateIssued(disk)
    /\ DiskOnly

EnsureDirectoriesDone ==
    /\ \E i \in 1..Len(disk.calls) :
        /\ disk.calls[i].pc = "ensure"
        /\ disk' = writeFileOpened(disk, i)
    /\ DiskOnly

WriteFileClose ==
    /\ \E i \in 1..Len(disk.calls) :
        /\ disk.calls[i].pc = "writing"
        /\ \E content \in WrittenContents(disk.calls[i]) :
            disk' = writeFileClosed(disk, i, content)
    /\ DiskOnly

MoveTemp ==
    /\ \E i \in 1..Len(disk.calls) :
        /\ disk.calls[i].pc = "written"
        /\ disk' = moveTemp(disk, i)
    /\ DiskOnly

CopyBegin ==
    /\ \E i \in 1..Len(disk.calls) :
        /\ disk.calls[i].pc = "moved"
        /\ disk' = copyBegun(disk, i)
    /\ DiskOnly

CopyEnd ==
    /\ \E i \in 1..Len(disk.calls) :
        /\ disk.calls[i].pc = "copying"
        /\ disk' = copyEnded(disk, i)
    /\ DiskOnly

InitSaves ==
    /\ InitState
    /\ variant = "extended"
    /\ store = StoreIdle
    /\ ticker = TickerIdle
    /\ calc = CalcIdle
    /\ ui = UiIdle
    /\ disk = SavesIdle

NextSaves ==
    \/ SaveStateCall
    \/ EnsureDirectoriesDone
    \/ WriteFileClose
    \/ MoveTemp
    \/ CopyBegin
    \/ CopyEnd

SpecSaves == InitSaves /\ [][NextSaves]_vars

\* C36: overlapping saves are last-writer-wins in request order: once
\* saveState calls that were in flight together have all settled, none of
\* them has rejected and state.json holds the snapshot of the call issued
\* last.
C36_LastWriterWins ==
    (/\ disk.overlap
     /\ \A i \in 1..Len(disk.calls) : settled(disk.calls[i])) =>
        /\ \A i \in 1..Len(disk.calls) : disk.calls[i].pc = "done"
        /\ disk.files[statePath] = disk.calls[Len(disk.calls)].payload

\* saves that follow one another: each leaves its snapshot in state.json
SequentialSavesKept ==
    (/\ ~disk.overlap
     /\ Len(disk.calls) > 0
     /\ \A i \in 1..Len(disk.calls) : settled(disk.calls[i])) =>
        /\ \A i \in 1..Len(disk.calls) : disk.calls[i].pc = "done"
        /\ disk.files[statePath] = disk.calls[Len(disk.calls)].payload
        /\ disk.files[backupPath] = disk.files[statePath]

\* ------------------------------------------------------------- the window
\* App's handlers over the store: the selection, the delete dialog and the
\* Add Time modal.  A step is one handler (or one tick), the render and the
\* effects that follow it.  The dialog and the modal cover the whole window
\* (fixed inset-0), so nothing behind them is clicked while one is open.
MaxUiSteps == 5       \* handlers and ticks in a run

\* the id of tasks.find(not completed and not struck); None for undefined
getActiveTask(ts) ==
    IF findNextActiveIndex(ts) = 0 THEN None ELSE ts[findNextActiveIndex(ts)].id

IndexOfTask(ts, id) ==
    IF \E i \in 1..Len(ts) : ts[i].id = id
    THEN CHOOSE i \in 1..Len(ts) : ts[i].id = id
    ELSE 0

\* (selectedTask ?? activeTask)?.id
taskForAddTime(u, ts) ==
    IF u.selectedTaskId # None /\ IndexOfTask(ts, u.selectedTaskId) # 0
    THEN u.selectedTaskId
    ELSE getActiveTask(ts)

\* the effect that drops a selection whose task is gone
selectedTaskCleanup(u, ts) ==
    IF u.selectedTaskId # None /\ IndexOfTask(ts, u.selectedTaskId) = 0
    THEN [u EXCEPT !.selectedTaskId = None]
    ELSE u

\* the ids of a set, as Array.from gives them (the order of the deletions
\* does not change what remains)
RECURSIVE IdsInOrder(_)
IdsInOrder(ids) ==
    IF ids = {} THEN <<>>
    ELSE LET least == CHOOSE x \in ids : \A y \in ids : x <= y
         IN <<least>> \o IdsInOrder(ids \ {least})

\* deleteTasks: one deleteTask action for each id
RECURSIVE deleteTasks(_, _, _)
deleteTasks(state, taskIds, now) ==
    IF taskIds = <<>> THEN state
    ELSE deleteTasks(reducer_deleteTask(state, Head(taskIds), now),
                     Tail(taskIds), now)

ClickModes == {"plain", "ctrl", "shift"}

handleSelectTask(u, ts, id, mode) ==
    IF mode = "shift" /\ u.lastSelectedTaskId # None
    THEN LET lastIndex == IndexOfTask(ts, u.lastSelectedTaskId)
             currentIndex == IndexOfTask(ts, id)
             start == Min(lastIndex, currentIndex)
             end == Max(lastIndex, currentIndex)
         IN IF lastIndex # 0 /\ currentIndex # 0
            THEN [u EXCEPT !.selectedTaskIds = {ts[i].id : i \in start..end},
                           !.selectedTaskId = id]
            ELSE u
    ELSE IF mode = "ctrl"
    THEN [u EXCEPT !.selectedTaskIds = IF id \in @ THEN @ \ {id} ELSE @ \cup {id},
                   !.selectedTaskId = id,
                   !.lastSelectedTaskId = id]
    ELSE [u EXCEPT !.selectedTaskIds = {id},
                   !.selectedTaskId = id,
                   !.lastSelectedTaskId = id]

\* the selection after a deleteTasks call, with the call's history
afterDeleteTasks(u, state, taskIds) ==
    [u EXCEPT !.selectedTaskIds = {},
              !.lastSelectedTaskId = None,
              !.selectedTaskId =
                  IF @ # None /\ \E i \in 1..Len(taskIds) : taskIds[i] = @
                  THEN None ELSE @,
              !.batch = {taskIds[i] : i \in 1..Len(taskIds)},
              !.batchActive = getActiveTask(state.tasks)]

\* handleDeleteMultiple, and the body of the Delete / Backspace handler
handleDeleteMultiple(u, state, now) ==
    LET activeTaskId == getActiveTask(state.tasks)
        filteredTaskIds == IdsInOrder(u.selectedTaskIds \ {activeTaskId})
    IN IF Len(filteredTaskIds) = 0 THEN [ui |-> u, state |-> state]
       ELSE IF Len(filteredTaskIds) > 1
       THEN [ui |-> [u EXCEPT !.tasksToDelete = filteredTaskIds,
                              !.showDeleteConfirm = TRUE],
             state |-> state]
       ELSE [ui |-> afterDeleteTasks(u, state, filteredTaskIds),
             state |-> deleteTasks(state, filteredTaskIds, now)]

handleConfirmDelete(u, state, now) ==
    LET deleted == IF Len(u.tasksToDelete) > 0
                   THEN afterDeleteTasks(u, state, u.tasksToDelete)
                   ELSE u
    IN [ui |-> [deleted EXCEPT !.showDeleteConfirm = FALSE,
                               !.tasksToDelete = <<>>],
        state |-> IF Len(u.tasksToDelete) > 0
                  THEN deleteTasks(state, u.tasksToDelete, now)
                  ELSE state]

handleCancelDelete(u) ==
    [u EXCEPT !.showDeleteConfirm = FALSE, !.tasksToDelete = <<>>]

\* the row's Add Time button
handleTaskAddTime(u, id) ==
    [u EXCEPT !.selectedTaskId = id, !.addTimeOpen = TRUE, !.openedFor = id]

\* the Add Time + button: setAddTimeOpen(true)
addTimeOpened(u, ts) ==
    [u EXCEPT !.addTimeOpen = TRUE, !.openedFor = taskForAddTime(u, ts)]

handleAddTime(u, state, seconds, now) ==
    LET targetTask == taskForAddTime(u, state.tasks)
    IN IF targetTask = None
       THEN [ui |-> [u EXCEPT !.submittedTo = None], state |-> state]
       ELSE [ui |-> [u EXCEPT !.addTimeOpen = FALSE, !.selectedTaskId = None,
                              !.submittedTo = targetTask],
             state |-> reducer_addTime(state, targetTask, seconds, now)]

\* the tasks the window starts with: n addTask actions
RECURSIVE tasksAdded(_, _, _)
tasksAdded(state, secs, id) ==
    IF id > Len(secs) THEN state
    ELSE tasksAdded(reducer_addTask(state, id, secs[id], 0), secs, id + 1)

ApplyUi(next, nextUi, op, id) ==
    /\ steps < MaxUiSteps
    /\ steps' = steps + 1
    /\ tasks' = next.tasks
    /\ score' = next.score
    /\ stats' = next.stats
    /\ meta' = next.meta
    /\ last' = [op |-> op, id |-> id, n |-> NoArg, iterations |-> 0]
    /\ ui' = selectedTaskCleanup(nextUi, next.tasks)
    /\ UNCHANGED <<variant, nextId, store, ticker, disk, calc>>

Covered == ui.showDeleteConfirm \/ ui.addTimeOpen

UiTick ==
    /\ steps < MaxUiSteps
    /\ \E dateKey \in Days :
          ApplyUi(reducer_tick(State, dateKey), ui, "tick", NoArg)

SelectTask ==
    /\ ~Covered
    /\ \E i \in 1..Len(tasks), mode \in ClickModes :
          ApplyUi(State, handleSelectTask(ui, tasks, tasks[i].id, mode),
                  mode, tasks[i].id)

KeyDelete ==
    /\ ~Covered
    /\ ui.selectedTaskIds # {}
    /\ LET r == handleDeleteMultiple(ui, State, Now)
       IN ApplyUi(r.state, r.ui, "keyDelete", NoArg)

DeleteMultiple ==
    /\ ~Covered
    /\ LET r == handleDeleteMultiple(ui, State, Now)
       IN ApplyUi(r.state, r.ui, "handleDeleteMultiple", NoArg)

ConfirmDelete ==
    /\ ui.showDeleteConfirm
    /\ LET r == handleConfirmDelete(ui, State, Now)
       IN ApplyUi(r.state, r.ui, "handleConfirmDelete", NoArg)

CancelDelete ==
    /\ ui.showDeleteConfirm
    /\ ApplyUi(State, handleCancelDelete(ui), "handleCancelDelete", NoArg)

TaskAddTime ==
    /\ ~Covered
    /\ \E i \in 1..Len(tasks) :
          ApplyUi(State, handleTaskAddTime(ui, tasks[i].id), "handleTaskAddTime",
                  tasks[i].id)

OpenAddTime ==
    /\ ~Covered
    /\ taskForAddTime(ui, tasks) # None
    /\ ApplyUi(State, addTimeOpened(ui, tasks), "openAddTime", NoArg)

SubmitAddTime ==
    /\ ui.addTimeOpen
    /\ \E seconds \in AddTimeSeconds :
          LET r == handleAddTime(ui, State, seconds, Now)
          IN ApplyUi(r.state, r.ui, "handleAddTime", NoArg)

CancelAddTime ==
    /\ ui.addTimeOpen
    /\ ApplyUi(State, [ui EXCEPT !.addTimeOpen = FALSE], "cancelAddTime", NoArg)

InitUi ==
    /\ variant = "extended"
    /\ \E n \in 1..MaxTasks : \E secs \in [1..n -> 1..MaxSec] :
          LET start == tasksAdded(createEmptyState(0), secs, 1)
          IN /\ tasks = start.tasks
             /\ score = start.score
             /\ stats = start.stats
             /\ meta = start.meta
             /\ nextId = n + 1
    /\ steps = 0
    /\ last = [op |-> "init", id |-> NoArg, n |-> NoArg, iterations |-> 0]
    /\ store = StoreIdle
    /\ ticker = TickerIdle
    /\ disk = DiskIdle
    /\ calc = CalcIdle
    /\ ui = UiIdle

NextUi ==
    \/ UiTick
    \/ SelectTask
    \/ KeyDelete
    \/ DeleteMultiple
    \/ ConfirmDelete
    \/ CancelDelete
    \/ TaskAddTime
    \/ OpenAddTime
    \/ SubmitAddTime
    \/ CancelAddTime

SpecUi == InitUi /\ [][NextUi]_vars

DeleteOps == {"keyDelete", "handleDeleteMultiple", "handleConfirmDelete"}

\* C31: multi-select deletion never removes the active task: the ids of a
\* deleteTasks call made by the Delete key, by handleDeleteMultiple or by the
\* confirmation of the dialog never contain the task that is active when the
\* call is made, whatever ticks struck while the dialog was open.
C31_ActiveTaskKept ==
    (last.op \in DeleteOps /\ ui.batch # {}) => ui.batchActive \notin ui.batch

\* C38: Add Time targets the task the modal was opened for: a submission of
\* the Add Time modal names the task that was the modal's target (the
\* selected task, else the active task) when the modal was opened.
C38_TargetIsOpenedFor ==
    last.op = "handleAddTime" => ui.submittedTo = ui.openedFor

====
